---- MODULE Spec2Model ----
(***************************************************************************)
(* Model of the in-process chess search engines (negamax, minimax,         *)
(* iterative deepening, quiescence, Monte Carlo tree search) over an       *)
(* abstract position oracle, and of the Glicko-2 rating calculator.        *)
(*                                                                         *)
(* A position is identified by its move stack from the start of the game  *)
(* tree: a sequence of move indices.  The position oracle (python-chess)  *)
(* and the static evaluator are opaque to the search code; here they are  *)
(* a finite family of game trees selected by the inputs seed and drawnAt. *)
(***************************************************************************)
EXTENDS Integers, Sequences, FiniteSets, TLC

VARIABLES
    seed,       \* selects the game tree: static scores, branching, move kinds
    drawnAt,    \* a position that is over by insufficient material (or NoPos)
    failAt,     \* the position at which an oracle/evaluator query raises (or NoPos)
    engine,     \* the constructed engine: [kind, depth, q_depth]
    nodes,      \* self.nodes (self.nodes_searched for MinimaxEngine)
    moveCount,  \* self.move_count (BaseChessEngine)
    selfBoard,  \* the move stack of self.board
    board,      \* the move stack of the caller's board object
    res,        \* outcome of the last get_move call
    curDepth,   \* self.current_depth (BaseChessEngine)
    totalTime   \* self.total_time (BaseChessEngine), in clock ticks

searchVars == <<seed, drawnAt, failAt, engine, nodes, moveCount,
                selfBoard, board, res, curDepth, totalTime>>

VARIABLES
    gmod,       \* which rating module runs: "backend" or "chess_bot"
    gIn,        \* the GlickoRating object the caller holds: [rating, rd, vol]
    gArg,       \* the fields of that object when the last call was made
    gRes,       \* the results passed to update_rating: NoResult or one GameResult
    gn,         \* update_rating calls made with results
    gGame,      \* the locals v and delta of update_rating
    gOut,       \* the GlickoRating that update_rating returned
    gpc,        \* where the rating calculator stands
    vs          \* locals of _update_volatility: [a, k, A, B, fa, fb, iters, vol]

glickoVars == <<gmod, gIn, gArg, gRes, gn, gGame, gOut, gpc, vs>>

VARIABLES
    root,       \* MCTSEngine.root: the position of the root node, NoPos for None
    tree,       \* the MCTSNode objects under self.root, by position
    sims,       \* iterations of the simulation loop made by the running call
    mArg,       \* the board given to MCTSEngine.get_move
    mMove,      \* what get_move returned
    mpc,        \* "idle", "loop" (between two iterations), "done"
    last        \* the node of the latest rollout, where it ended and its value

mctsVars == <<root, tree, sims, mArg, mMove, mpc, last>>

VARIABLES
    game,       \* the entry of games the requests name: [game_mode, move_times,
                \* engine], engine being the move stack of game["engine"].board;
                \* game["board"] is board, game["engine2"] is the engine above
    resp,       \* the latest make_move request and its response
    leaderboard,\* leaderboard.leaderboard: the rating of every rated name
    match       \* the record_match_result call under way: [pc, a, b, score2,
                \* rating_a, rating_b], score2 being twice score_a

serverVars == <<game, resp, leaderboard, match>>

VARIABLES
    pawns,      \* the pawns of the board given to evaluate_position:
                \* [white, black], each the number of pawns on files 0..7
    charged     \* what the isolated-pawn loop of evaluate_position took from
                \* each side: [done, white, black]

vars == <<searchVars, glickoVars, mctsVars, serverVars, pawns, charged>>

-----------------------------------------------------------------------------
(* Bounds of the model                                                     *)

MaxBranch == 2      \* most legal moves in one position
MaxPly == 3         \* every position this many plies deep has no legal move
MaxSeed == 80       \* trees the oracle is drawn from
MaxFailPly == 2     \* deepest position at which the oracle is made to fail
MaxDepth == 3       \* largest configured search depth / level
MaxQDepth == 1      \* largest configured quiescence depth
MaxClock == 5       \* latest clock read at which the deadline can expire
MaxCalls == 2       \* get_move calls counted by move_count
MaxElapsed == 2     \* clock ticks one get_move call may take
MaxFilePawns == 2   \* most pawns of one colour on one file
MaxRootPly == 1     \* deepest position the caller asks a move for
MaxBracket == 6     \* tests of the bracket loop of _update_volatility followed
MaxIllinois == 8    \* rounds of its regula falsi loop followed
MaxPeriods == 2     \* update_rating calls with results made on one player
MaxSims == 4        \* iterations of the MCTS loop before simulation_time is over

Inf == 1000000      \* float('inf')
NoExpiry == MaxClock + 1000    \* a deadline no clock read of a call reaches
NoPos == <<0>>      \* no position (move indices start at 1)
NoMove == [at |-> NoPos, ix |-> 0]      \* Python None in place of a move

Max(a, b) == IF a >= b THEN a ELSE b
Min(a, b) == IF a <= b THEN a ELSE b

-----------------------------------------------------------------------------
(* Position oracle: chess.Board                                            *)

RECURSIVE Paths(_)
Paths(n) ==
    IF n = 0 THEN {<<>>}
    ELSE Paths(n - 1) \cup
         {Append(p, i) : p \in {q \in Paths(n - 1) : Len(q) = n - 1}, i \in 1..MaxBranch}

RECURSIVE Code(_)
Code(p) ==
    IF Len(p) = 0 THEN 0
    ELSE Code(SubSeq(p, 1, Len(p) - 1)) * 2 + p[Len(p)]

RECURSIVE Pow3(_)
Pow3(k) == IF k = 0 THEN 1 ELSE 3 * Pow3(k - 1)

\* seed is read as four base-3 digits
Digit(k) == (seed \div Pow3(k % 4)) % 3

\* len(list(board.legal_moves)); the moves are enumerated as 1..NMoves(p)
NMoves(p) ==
    IF Len(p) >= MaxPly THEN 0
    ELSE IF Digit(Code(p) + 1) < 2 THEN MaxBranch
    ELSE (Code(p) + 1) % 2

RECURSIVE ValidPos(_)
ValidPos(p) ==
    \/ Len(p) = 0
    \/ LET q == SubSeq(p, 1, Len(p) - 1)
       IN ValidPos(q) /\ p[Len(p)] \in 1..NMoves(q)

Positions == {p \in Paths(MaxPly) : ValidPos(p)}

\* board.push(move) and board.pop() on the move stack
Push(bd, i) == Append(bd, i)
Pop(bd) == SubSeq(bd, 1, Len(bd) - 1)

\* board.turn: TRUE is White
Turn(p) == Len(p) % 2 = 0
Sign(p) == IF Turn(p) THEN 1 ELSE -1

TermKind(p) ==
    IF NMoves(p) = 0
    THEN (IF Digit(Code(p)) = 0 THEN "stalemate" ELSE "checkmate")
    ELSE IF p = drawnAt THEN "insufficient" ELSE "none"

\* board.is_game_over()
IsGameOver(p) == TermKind(p) # "none"

\* the static score of a position that is not mate, stalemate or dead:
\* material, mobility, pawns, king safety and the term (hash(fen) % 10) * 0.01
EvalVals == <<-1000, 0, 100>>
StaticScore(p) == EvalVals[Digit(Code(p)) + 1]

\* heuristics.evaluate_position
MateScore == 10000

\* an evaluate_position that scores a stalemate or a dead position like any
\* other position
EvaluateDrawScored(p) ==
    IF TermKind(p) = "checkmate" THEN (IF Turn(p) THEN -MateScore ELSE MateScore)
    ELSE StaticScore(p)

Evaluate(p) ==
    IF TermKind(p) = "checkmate" THEN (IF Turn(p) THEN -MateScore ELSE MateScore)
    ELSE IF TermKind(p) \in {"stalemate", "insufficient"} THEN 0
    ELSE StaticScore(p)

\* MinimaxEngine.evaluate_position
MinimaxMateScore == 20000
MinimaxEvaluate(p) ==
    IF TermKind(p) = "checkmate"
    THEN (IF Turn(p) THEN -MinimaxMateScore ELSE MinimaxMateScore)
    ELSE IF TermKind(p) \in {"stalemate", "insufficient"} THEN 0
    ELSE StaticScore(p)

\* an oracle or evaluator query on position p raises
Fails(p) == p = failAt

-----------------------------------------------------------------------------
(* Results of the recursive routines.  st is "ok" or "raise"; v the value  *)
(* returned; n the nodes counted; bd the board's move stack on exit; bal   *)
(* is TRUE when this routine and every routine it called left the move    *)
(* stack as they found it.                                                 *)

Exit(st, v, n, bd, balAcc, entry) ==
    [st |-> st, v |-> v, n |-> n, bd |-> bd, bal |-> balAcc /\ bd = entry]

-----------------------------------------------------------------------------
(* NegamaxEngine                                                           *)

RECURSIVE Negamax(_, _, _, _), NegamaxLoop(_, _, _, _)

\* the end of one pass of the loop of _negamax: "if alpha >= beta: break";
\* t is the loop state after the move
NegamaxCut(p, depth, beta, t) ==
    IF t.alpha >= beta THEN Exit("ok", t.value, t.n, t.bd, t.bal, p)
    ELSE NegamaxLoop(p, depth, beta, t)

\* a pass that keeps the value of the latest move instead of the largest
NegamaxPassLatest(p, depth, beta, s, r) ==
    IF r.st = "raise" THEN Exit("raise", 0, s.n + r.n, r.bd, s.bal /\ r.bal, p)
    ELSE NegamaxCut(p, depth, beta,
            [i |-> s.i + 1, value |-> -r.v, alpha |-> Max(s.alpha, -r.v),
             n |-> s.n + r.n, bd |-> Pop(r.bd), bal |-> s.bal /\ r.bal])

\* one pass of the loop of _negamax once the recursive call has come back
\* with r: board.pop(), value and alpha
NegamaxPass(p, depth, beta, s, r) ==
    IF r.st = "raise" THEN Exit("raise", 0, s.n + r.n, r.bd, s.bal /\ r.bal, p)
    ELSE NegamaxCut(p, depth, beta,
            [i |-> s.i + 1, value |-> Max(s.value, -r.v),
             alpha |-> Max(s.alpha, Max(s.value, -r.v)),
             n |-> s.n + r.n, bd |-> Pop(r.bd), bal |-> s.bal /\ r.bal])

\* "for move in self.board.legal_moves" in _negamax;
\* s = [i, value, alpha, n, bd, bal] is the loop state before move i
NegamaxLoop(p, depth, beta, s) ==
    IF s.i > NMoves(p) THEN Exit("ok", s.value, s.n, s.bd, s.bal, p)
    ELSE NegamaxPass(p, depth, beta, s,
            Negamax(Push(s.bd, s.i), depth - 1, -beta, -s.alpha))

\* NegamaxEngine._negamax on the board bd
Negamax(bd, depth, alpha, beta) ==
    IF Fails(bd) THEN Exit("raise", 0, 1, bd, TRUE, bd)
    ELSE IF depth = 0 \/ IsGameOver(bd)
    THEN Exit("ok", Evaluate(bd) * Sign(bd), 1, bd, TRUE, bd)
    ELSE NegamaxLoop(bd, depth, beta,
            [i |-> 1, value |-> -Inf, alpha |-> alpha, n |-> 1, bd |-> bd, bal |-> TRUE])

\* what a get_move level routine hands back: move and v are the best move and
\* best value it holds when it exits
RootExit(st, move, v, n, bd, balAcc) ==
    [st |-> st, move |-> move, v |-> v, n |-> n, bd |-> bd, bal |-> balAcc]

Mv(p, i) == [at |-> p, ix |-> i]

\* a root loop that lets a later move of equal value take the place of the best
BetterOrEqual(value, best_value) == value >= best_value

\* "if value > best_value" of NegamaxEngine.get_move
Better(value, best_value) == value > best_value

RECURSIVE NegamaxRootLoop(_, _, _)

\* one pass of the root loop once _negamax has come back with r
NegamaxRootPass(p, depth, s, r) ==
    IF r.st = "raise"
    THEN RootExit("raise", s.best_move, s.best_value, s.n + r.n, r.bd, s.bal /\ r.bal)
    ELSE NegamaxRootLoop(p, depth,
            [i |-> s.i + 1,
             best_value |-> IF Better(-r.v, s.best_value) THEN -r.v ELSE s.best_value,
             best_move |-> IF Better(-r.v, s.best_value) THEN Mv(p, s.i) ELSE s.best_move,
             alpha |-> Max(s.alpha, -r.v),
             n |-> s.n + r.n, bd |-> Pop(r.bd), bal |-> s.bal /\ r.bal])

\* "for move in self.board.legal_moves" in NegamaxEngine.get_move;
\* s = [i, best_value, best_move, alpha, n, bd, bal]
NegamaxRootLoop(p, depth, s) ==
    IF s.i > NMoves(p) THEN RootExit("ok", s.best_move, s.best_value, s.n, s.bd, s.bal)
    ELSE NegamaxRootPass(p, depth, s,
            Negamax(Push(s.bd, s.i), depth - 1, -Inf, -s.alpha))

\* a root search whose best_value starts at 0 instead of -inf
NegamaxRootFromZero(p, depth) ==
    NegamaxRootLoop(p, depth,
        [i |-> 1, best_value |-> 0, best_move |-> NoMove, alpha |-> -Inf,
         n |-> 0, bd |-> p, bal |-> TRUE])

\* the search of NegamaxEngine.get_move once the root is known not to be over
NegamaxRoot(p, depth) ==
    NegamaxRootLoop(p, depth,
        [i |-> 1, best_value |-> -Inf, best_move |-> NoMove, alpha |-> -Inf,
         n |-> 0, bd |-> p, bal |-> TRUE])

-----------------------------------------------------------------------------
(* MinimaxEngine                                                           *)

RECURSIVE Minimax(_, _, _, _, _), MinimaxLoop(_, _, _, _)

\* a depth metric that counts the plies below the first one only
WithDepthFromOne(r, cur) == [current_depth |-> cur - 1] @@ r

\* the outcome r of a call of minimax together with self.current_depth as the
\* nodes visited so far leave it: "self.current_depth = max(self.current_depth,
\* self.level - depth)"
WithDepth(r, cur) == [current_depth |-> cur] @@ r

\* the end of one pass of a loop of minimax: "if beta <= alpha: break";
\* t is the loop state after the move
MinimaxCut(p, depth, maximizing, t) ==
    IF t.beta <= t.alpha
    THEN WithDepth(RootExit("ok", t.best_move, t.best_eval, t.n, t.bd,
                            t.bal /\ t.bd = p), t.current_depth)
    ELSE MinimaxLoop(p, depth, maximizing, t)

\* "if eval_score > max_eval" resp. "if eval_score < min_eval"
MinimaxBetter(maximizing, v, best_eval) ==
    IF maximizing THEN v > best_eval ELSE v < best_eval

\* one pass of a loop of minimax once the recursive call has come back with r
MinimaxPass(p, depth, maximizing, s, r) ==
    IF r.st = "raise"
    THEN WithDepth(RootExit("raise", s.best_move, s.best_eval, s.n + r.n, r.bd,
                            s.bal /\ r.bal /\ r.bd = p),
                   Max(s.current_depth, r.current_depth))
    ELSE MinimaxCut(p, depth, maximizing,
            [i |-> s.i + 1,
             best_eval |-> IF MinimaxBetter(maximizing, r.v, s.best_eval)
                           THEN r.v ELSE s.best_eval,
             best_move |-> IF MinimaxBetter(maximizing, r.v, s.best_eval)
                           THEN Mv(p, s.i) ELSE s.best_move,
             alpha |-> IF maximizing THEN Max(s.alpha, r.v) ELSE s.alpha,
             beta |-> IF maximizing THEN s.beta ELSE Min(s.beta, r.v),
             n |-> s.n + r.n, bd |-> Pop(r.bd), bal |-> s.bal /\ r.bal,
             current_depth |-> Max(s.current_depth, r.current_depth)])

\* the two loops of MinimaxEngine.minimax; maximizing selects the branch;
\* s = [i, best_eval, best_move, alpha, beta, n, bd, bal, current_depth]
MinimaxLoop(p, depth, maximizing, s) ==
    IF s.i > NMoves(p)
    THEN WithDepth(RootExit("ok", s.best_move, s.best_eval, s.n, s.bd,
                            s.bal /\ s.bd = p), s.current_depth)
    ELSE MinimaxPass(p, depth, maximizing, s,
            Minimax(Push(s.bd, s.i), depth - 1, s.alpha, s.beta, ~maximizing))

\* MinimaxEngine.minimax on the board bd; self.level is engine.depth
Minimax(bd, depth, alpha, beta, maximizing) ==
    IF Fails(bd)
    THEN WithDepth(RootExit("raise", NoMove, 0, 1, bd, TRUE), engine.depth - depth)
    ELSE IF depth = 0 \/ IsGameOver(bd)
    THEN WithDepth(RootExit("ok", NoMove, MinimaxEvaluate(bd), 1, bd, TRUE),
                   engine.depth - depth)
    ELSE MinimaxLoop(bd, depth, maximizing,
            [i |-> 1, best_eval |-> IF maximizing THEN -Inf ELSE Inf,
             best_move |-> NoMove, alpha |-> alpha, beta |-> beta,
             n |-> 1, bd |-> bd, bal |-> TRUE,
             current_depth |-> engine.depth - depth])

RECURSIVE MinimaxDeepen(_, _, _, _)

\* one pass of the deepening loop once minimax has come back with r:
\* "if move is not None"; st "caught" is the except branch
MinimaxDeepenPass(p, level, depth, s, r) ==
    IF r.st = "raise"
    THEN WithDepth(RootExit("caught", s.best_move, s.best_score, s.n + r.n, r.bd,
                            s.bal /\ r.bal),
                   Max(s.current_depth, r.current_depth))
    ELSE MinimaxDeepen(p, level, depth + 1,
            [best_move |-> IF r.move # NoMove THEN r.move ELSE s.best_move,
             best_score |-> IF r.move # NoMove THEN r.v ELSE s.best_score,
             n |-> s.n + r.n, bd |-> r.bd, bal |-> s.bal /\ r.bal,
             current_depth |-> Max(s.current_depth, r.current_depth)])

\* "for depth in range(1, self.level + 1)" inside the try of _get_move_impl;
\* s = [best_move, best_score, n, bd, bal, current_depth]
MinimaxDeepen(p, level, depth, s) ==
    IF depth > level
    THEN WithDepth(RootExit("ok", s.best_move, s.best_score, s.n, s.bd, s.bal),
                   s.current_depth)
    ELSE MinimaxDeepenPass(p, level, depth, s, Minimax(s.bd, depth, -Inf, Inf, Turn(p)))

\* the try block of MinimaxEngine._get_move_impl, entered with legal moves
MinimaxTry(p, level) ==
    MinimaxDeepen(p, level, 1,
        [best_move |-> NoMove, best_score |-> IF Turn(p) THEN -Inf ELSE Inf,
         n |-> 0, bd |-> p, bal |-> TRUE, current_depth |-> 0])

-----------------------------------------------------------------------------
(* IterativeDeepeningEngine.  dl is the deadline of the call: the clock    *)
(* read number clk (0, 1, 2, ...) finds the time limit reached when        *)
(* clk >= dl.  Every routine hands back the number of clock reads so far.  *)

Expired(clk, dl) == clk >= dl

ExitC(st, v, n, bd, balAcc, entry, clk) ==
    [st |-> st, v |-> v, n |-> n, bd |-> bd, bal |-> balAcc /\ bd = entry, clk |-> clk]

RECURSIVE IDAlphabeta(_, _, _, _, _, _), IDAlphabetaLoop(_, _, _, _, _)

\* the end of one pass of the loop of _alphabeta: "if alpha >= beta: break";
\* t is the loop state after the move
IDAlphabetaCut(p, depth, beta, dl, t) ==
    IF t.alpha >= beta THEN ExitC("ok", t.value, t.n, t.bd, t.bal, p, t.clk)
    ELSE IDAlphabetaLoop(p, depth, beta, dl, t)

\* one pass of the loop of _alphabeta once the recursive call has come back
\* with r: board.pop(), value and alpha
IDAlphabetaPass(p, depth, beta, dl, s, r) ==
    IF r.st = "raise"
    THEN ExitC("raise", 0, s.n + r.n, r.bd, s.bal /\ r.bal, p, r.clk)
    ELSE IDAlphabetaCut(p, depth, beta, dl,
            [i |-> s.i + 1, value |-> Max(s.value, -r.v),
             alpha |-> Max(s.alpha, Max(s.value, -r.v)), n |-> s.n + r.n,
             bd |-> Pop(r.bd), bal |-> s.bal /\ r.bal, clk |-> r.clk])

\* "for move in self.board.legal_moves" in IterativeDeepeningEngine._alphabeta;
\* s = [i, value, alpha, n, bd, bal, clk]
IDAlphabetaLoop(p, depth, beta, dl, s) ==
    IF s.i > NMoves(p) THEN ExitC("ok", s.value, s.n, s.bd, s.bal, p, s.clk)
    ELSE IDAlphabetaPass(p, depth, beta, dl, s,
            IDAlphabeta(Push(s.bd, s.i), depth - 1, -beta, -s.alpha, dl, s.clk))

\* what _alphabeta returns without searching: the static evaluation
IDLeaf(bd, clk) == ExitC("ok", Evaluate(bd) * Sign(bd), 1, bd, TRUE, bd, clk)

\* IterativeDeepeningEngine._alphabeta on the board bd
IDAlphabeta(bd, depth, alpha, beta, dl, clk) ==
    IF Fails(bd) THEN ExitC("raise", 0, 1, bd, TRUE, bd, clk)
    ELSE IF depth = 0 \/ IsGameOver(bd) THEN IDLeaf(bd, clk)
    ELSE IF Expired(clk, dl) THEN IDLeaf(bd, clk + 1)
    ELSE IDAlphabetaLoop(bd, depth, beta, dl,
            [i |-> 1, value |-> -Inf, alpha |-> alpha, n |-> 1, bd |-> bd,
             bal |-> TRUE, clk |-> clk + 1])

\* what _alphabeta_root hands back from the loop state s: examined is the
\* number of root moves examined, broke says the loop was left by the time
\* check
IDRootExit(st, broke, s) ==
    [st |-> st, move |-> s.best_move, v |-> s.best_value, n |-> s.n, bd |-> s.bd,
     bal |-> s.bal, clk |-> s.clk, examined |-> s.i - 1, broke |-> broke]

RECURSIVE IDRootLoop(_, _, _, _)

\* one pass of the root loop once _alphabeta has come back with r
IDRootPass(p, depth, dl, s, r) ==
    IF r.st = "raise"
    THEN IDRootExit("raise", FALSE,
            [s EXCEPT !.n = s.n + r.n, !.bd = r.bd, !.bal = s.bal /\ r.bal, !.clk = r.clk])
    ELSE IDRootLoop(p, depth, dl,
            [i |-> s.i + 1,
             best_value |-> IF -r.v > s.best_value THEN -r.v ELSE s.best_value,
             best_move |-> IF -r.v > s.best_value THEN Mv(p, s.i) ELSE s.best_move,
             alpha |-> Max(s.alpha, -r.v),
             n |-> s.n + r.n, bd |-> Pop(r.bd), bal |-> s.bal /\ r.bal, clk |-> r.clk])

\* IterativeDeepeningEngine._alphabeta_root: s = [i, best_value, best_move,
\* alpha, n, bd, bal, clk]
IDRootLoop(p, depth, dl, s) ==
    IF s.i > NMoves(p) THEN IDRootExit("ok", FALSE, s)
    ELSE IF Expired(s.clk, dl) THEN IDRootExit("ok", TRUE, [s EXCEPT !.clk = s.clk + 1])
    ELSE IDRootPass(p, depth, dl, s,
            IDAlphabeta(Push(s.bd, s.i), depth - 1, -Inf, -s.alpha, dl, s.clk + 1))

IDRoot(p, depth, dl, n, bd, bal, clk) ==
    IDRootLoop(p, depth, dl,
        [i |-> 1, best_value |-> -Inf, best_move |-> NoMove, alpha |-> -Inf,
         n |-> n, bd |-> bd, bal |-> bal, clk |-> clk])

\* what get_move's deepening loop hands back from its state s
IDExit(st, s) ==
    [st |-> st, move |-> s.best_move, n |-> s.n, bd |-> s.bd, bal |-> s.bal,
     clk |-> s.clk, cutDepth |-> s.cutDepth, examined |-> s.examined]

RECURSIVE IDDeepen(_, _, _, _, _)

\* one pass of the deepening loop once _alphabeta_root has come back with r:
\* "if move is not None: best_move = move"
IDDeepenPass(p, max_depth, dl, current_depth, s, r) ==
    IF r.st = "raise"
    THEN IDExit("raise", [s EXCEPT !.n = r.n, !.bd = r.bd, !.bal = r.bal, !.clk = r.clk])
    ELSE IDDeepen(p, max_depth, dl, current_depth + 1,
            [best_move |-> IF r.move # NoMove THEN r.move ELSE s.best_move,
             n |-> r.n, bd |-> r.bd, bal |-> r.bal, clk |-> r.clk,
             cutDepth |-> IF r.broke /\ s.cutDepth = 0 THEN current_depth ELSE s.cutDepth,
             examined |-> IF r.broke /\ s.cutDepth = 0 THEN r.examined ELSE s.examined])

\* "for current_depth in range(1, self.max_depth + 1)" in get_move;
\* s = [best_move, n, bd, bal, clk, cutDepth, examined]: cutDepth is the depth
\* whose root loop was left by the time check (0: none), after examined moves
IDDeepen(p, max_depth, dl, current_depth, s) ==
    IF current_depth > max_depth THEN IDExit("ok", s)
    ELSE IF Expired(s.clk, dl) THEN IDExit("ok", [s EXCEPT !.clk = s.clk + 1])
    ELSE IDDeepenPass(p, max_depth, dl, current_depth, s,
            IDRoot(p, current_depth, dl, s.n, s.bd, s.bal, s.clk + 1))

\* the search of IterativeDeepeningEngine.get_move on a root that is not over
IDSearch(p, max_depth, dl) ==
    IDDeepen(p, max_depth, dl, 1,
        [best_move |-> NoMove, n |-> 0, bd |-> p, bal |-> TRUE, clk |-> 0,
         cutDepth |-> 0, examined |-> 0])

-----------------------------------------------------------------------------
(* QuiescenceEngine                                                        *)

\* what the oracle says of a move: move.promotion, board.is_capture,
\* PIECE_VALUES of the pieces on its to and from squares (0: empty square),
\* board.gives_check
QuietMove == [promotion |-> FALSE, capture |-> FALSE, victim |-> 0, attacker |-> 0,
              check |-> FALSE]
CheckMove == [QuietMove EXCEPT !.check = TRUE]
QueenTakesPawn == [QuietMove EXCEPT !.capture = TRUE, !.victim = 100, !.attacker = 900]
MoveAttrs == <<QuietMove, CheckMove, QueenTakesPawn>>

\* the attributes of move i of position p
MoveAttr(p, i) == MoveAttrs[Digit(Code(Push(p, i)) + 2) + 1]

\* QuiescenceEngine._is_capture
IsCapture(p, i) == MoveAttr(p, i).capture \/ MoveAttr(p, i).promotion

\* QuiescenceEngine._move_value
MoveValue(p, i) ==
    LET m == MoveAttr(p, i)
    IN IF m.promotion THEN 10000
       ELSE IF m.capture /\ m.victim # 0 /\ m.attacker # 0
       THEN m.victim - m.attacker + 1000
       ELSE IF m.check THEN 500
       ELSE 0

RECURSIVE InsertMove(_, _, _)
\* puts move i behind every move of the sorted list whose value is not lower
InsertMove(p, i, sorted) ==
    IF sorted = <<>> THEN <<i>>
    ELSE IF MoveValue(p, Head(sorted)) >= MoveValue(p, i)
    THEN <<Head(sorted)>> \o InsertMove(p, i, Tail(sorted))
    ELSE <<i>> \o sorted

RECURSIVE OrderMoves(_, _)
\* QuiescenceEngine._order_moves: sorted(moves, key=_move_value, reverse=True),
\* a stable sort
OrderMoves(p, moves) ==
    IF moves = <<>> THEN <<>>
    ELSE InsertMove(p, moves[Len(moves)], OrderMoves(p, SubSeq(moves, 1, Len(moves) - 1)))

\* list(self.board.legal_moves)
LegalMoves(p) == [i \in 1..NMoves(p) |-> i]

\* the moves _quiescence looks at: captures, promotions and checks
TacticalMoves(p) ==
    SelectSeq(LegalMoves(p), LAMBDA i : IsCapture(p, i) \/ MoveAttr(p, i).check)

RECURSIVE Quiescence(_, _, _, _), QuiescenceLoop(_, _, _, _)

\* the outcome r of a call of _quiescence or _alphabeta together with the
\* length of the longest move stack self.board had during the call, each
\* "self.board.push(move)" making it one longer
Deepest(r, ply) == [deep |-> ply] @@ r

\* one pass of the loop of _quiescence once the recursive call has come back
\* with r: "if score >= beta: return beta"
QuiescencePass(p, beta, depth, s, r) ==
    IF r.st = "raise"
    THEN Deepest(Exit("raise", 0, s.n + r.n, r.bd, s.bal /\ r.bal, p), Max(s.deep, r.deep))
    ELSE IF -r.v >= beta
    THEN Deepest(Exit("ok", beta, s.n + r.n, Pop(r.bd), s.bal /\ r.bal, p),
                 Max(s.deep, r.deep))
    ELSE QuiescenceLoop(p, beta, depth,
            [ms |-> Tail(s.ms), alpha |-> Max(s.alpha, -r.v), n |-> s.n + r.n,
             bd |-> Pop(r.bd), bal |-> s.bal /\ r.bal, deep |-> Max(s.deep, r.deep)])

\* "for move in ordered_moves" in _quiescence; s = [ms, alpha, n, bd, bal, deep]
QuiescenceLoop(p, beta, depth, s) ==
    IF s.ms = <<>> THEN Deepest(Exit("ok", s.alpha, s.n, s.bd, s.bal, p), s.deep)
    ELSE QuiescencePass(p, beta, depth, s,
            Quiescence(Push(s.bd, Head(s.ms)), -beta, -s.alpha, depth - 1))

\* a _quiescence that does not look at the depth it has left
QuiescenceStandUnbounded(bd, alpha, beta, depth, stand_pat) ==
    IF stand_pat >= beta THEN Deepest(Exit("ok", beta, 1, bd, TRUE, bd), Len(bd))
    ELSE IF stand_pat < alpha - 900 THEN Deepest(Exit("ok", alpha, 1, bd, TRUE, bd), Len(bd))
    ELSE QuiescenceLoop(bd, beta, depth,
            [ms |-> OrderMoves(bd, TacticalMoves(bd)), alpha |-> Max(alpha, stand_pat),
             n |-> 1, bd |-> bd, bal |-> TRUE, deep |-> Len(bd)])

\* _quiescence once stand_pat is known
QuiescenceStand(bd, alpha, beta, depth, stand_pat) ==
    IF depth <= 0 THEN Deepest(Exit("ok", stand_pat, 1, bd, TRUE, bd), Len(bd))
    ELSE IF stand_pat >= beta THEN Deepest(Exit("ok", beta, 1, bd, TRUE, bd), Len(bd))
    ELSE IF stand_pat < alpha - 900 THEN Deepest(Exit("ok", alpha, 1, bd, TRUE, bd), Len(bd))
    ELSE QuiescenceLoop(bd, beta, depth,
            [ms |-> OrderMoves(bd, TacticalMoves(bd)), alpha |-> Max(alpha, stand_pat),
             n |-> 1, bd |-> bd, bal |-> TRUE, deep |-> Len(bd)])

\* QuiescenceEngine._quiescence on the board bd
Quiescence(bd, alpha, beta, depth) ==
    IF Fails(bd) THEN Deepest(Exit("raise", 0, 1, bd, TRUE, bd), Len(bd))
    ELSE QuiescenceStand(bd, alpha, beta, depth, Evaluate(bd) * Sign(bd))

RECURSIVE QAlphabeta(_, _, _, _, _), QAlphabetaLoop(_, _, _, _, _)

\* the end of one pass of the loop of _alphabeta: "if alpha >= beta: break"
QAlphabetaCut(p, depth, beta, q_depth, t) ==
    IF t.alpha >= beta THEN Deepest(Exit("ok", t.value, t.n, t.bd, t.bal, p), t.deep)
    ELSE QAlphabetaLoop(p, depth, beta, q_depth, t)

\* one pass of the loop of _alphabeta once the recursive call has come back
\* with r
QAlphabetaPass(p, depth, beta, q_depth, s, r) ==
    IF r.st = "raise"
    THEN Deepest(Exit("raise", 0, s.n + r.n, r.bd, s.bal /\ r.bal, p), Max(s.deep, r.deep))
    ELSE QAlphabetaCut(p, depth, beta, q_depth,
            [ms |-> Tail(s.ms), value |-> Max(s.value, -r.v),
             alpha |-> Max(s.alpha, Max(s.value, -r.v)), n |-> s.n + r.n,
             bd |-> Pop(r.bd), bal |-> s.bal /\ r.bal, deep |-> Max(s.deep, r.deep)])

\* "for move in ordered_moves" in QuiescenceEngine._alphabeta;
\* s = [ms, value, alpha, n, bd, bal, deep]
QAlphabetaLoop(p, depth, beta, q_depth, s) ==
    IF s.ms = <<>> THEN Deepest(Exit("ok", s.value, s.n, s.bd, s.bal, p), s.deep)
    ELSE QAlphabetaPass(p, depth, beta, q_depth, s,
            QAlphabeta(Push(s.bd, Head(s.ms)), depth - 1, -beta, -s.alpha, q_depth))

\* "return self._quiescence(alpha, beta, self.q_depth)" at depth 0: q is what
\* _quiescence handed back
QHorizon(bd, q) == Deepest(Exit(q.st, q.v, 1 + q.n, q.bd, q.bal, bd), q.deep)

\* QuiescenceEngine._alphabeta on the board bd
QAlphabeta(bd, depth, alpha, beta, q_depth) ==
    IF Fails(bd) THEN Deepest(Exit("raise", 0, 1, bd, TRUE, bd), Len(bd))
    ELSE IF IsGameOver(bd)
    THEN Deepest(Exit("ok", Evaluate(bd) * Sign(bd), 1, bd, TRUE, bd), Len(bd))
    ELSE IF depth <= 0 THEN QHorizon(bd, Quiescence(bd, alpha, beta, q_depth))
    ELSE QAlphabetaLoop(bd, depth, beta, q_depth,
            [ms |-> OrderMoves(bd, LegalMoves(bd)), value |-> -Inf, alpha |-> alpha,
             n |-> 1, bd |-> bd, bal |-> TRUE, deep |-> Len(bd)])

RECURSIVE QRootLoop(_, _, _, _)

\* one pass of the root loop once _alphabeta has come back with r
QRootPass(p, depth, q_depth, s, r) ==
    IF r.st = "raise"
    THEN Deepest(RootExit("raise", s.best_move, s.best_value, s.n + r.n, r.bd,
                          s.bal /\ r.bal), Max(s.deep, r.deep))
    ELSE QRootLoop(p, depth, q_depth,
            [i |-> s.i + 1,
             best_value |-> IF -r.v > s.best_value THEN -r.v ELSE s.best_value,
             best_move |-> IF -r.v > s.best_value THEN Mv(p, s.i) ELSE s.best_move,
             alpha |-> Max(s.alpha, -r.v),
             n |-> s.n + r.n, bd |-> Pop(r.bd), bal |-> s.bal /\ r.bal,
             deep |-> Max(s.deep, r.deep)])

\* "for move in self.board.legal_moves" in QuiescenceEngine.get_move;
\* s = [i, best_value, best_move, alpha, n, bd, bal, deep]
QRootLoop(p, depth, q_depth, s) ==
    IF s.i > NMoves(p)
    THEN Deepest(RootExit("ok", s.best_move, s.best_value, s.n, s.bd, s.bal), s.deep)
    ELSE QRootPass(p, depth, q_depth, s,
            QAlphabeta(Push(s.bd, s.i), depth - 1, -Inf, -s.alpha, q_depth))

\* the search of QuiescenceEngine.get_move on a root that is not over
QRoot(p, depth, q_depth) ==
    QRootLoop(p, depth, q_depth,
        [i |-> 1, best_value |-> -Inf, best_move |-> NoMove, alpha |-> -Inf,
         n |-> 0, bd |-> p, bal |-> TRUE, deep |-> Len(p)])

-----------------------------------------------------------------------------
(* The engines as a state machine: one action per get_move call            *)

\* the outcome of a get_move call on the position root: st is "returned" or
\* "raised", or "retrying" between two attempts of a retried call; attempts
\* counts the _get_move_impl invocations of the call and exc names what the
\* latest of them raised ("ok" if it returned); plies is how many plies
\* below root the deepest position of a quiescence search lay; pair tells a (move, score) tuple from a bare move; best is the
\* best value the root loop held; failed tells that an oracle or evaluator
\* query raised during the call
NoRes ==
    [root |-> NoPos, st |-> "none", move |-> NoMove, pair |-> FALSE, score |-> 0,
     best |-> 0, bal |-> TRUE, failed |-> FALSE, dl |-> 0, cutDepth |-> 0,
     examined |-> 0, attempts |-> 0, exc |-> "none", plies |-> 0]

Engines ==
    [kind : {"negamax", "minimax", "iterative"}, depth : 1..MaxDepth, q_depth : {0}]
    \cup [kind : {"quiescence"}, depth : 1..MaxDepth, q_depth : 0..MaxQDepth]
    \cup [kind : {"base"}, depth : {1}, q_depth : {0}]

\* the positions the oracle may be told to report as dead draws: none, the
\* caller's position or the one after its first move
DrawnChoices(p) == {NoPos} \cup {q \in {p, Push(p, 1)} : NMoves(q) > 0}

InitEngine ==
    /\ engine \in Engines
    /\ nodes = 0
    /\ moveCount = 0
    /\ selfBoard = <<>>
    /\ res = NoRes
    /\ curDepth = 0
    /\ totalTime = 0

SearchInit ==
    /\ seed \in 0..MaxSeed
    /\ board \in {p \in Positions : Len(p) <= MaxRootPly}
    /\ drawnAt \in DrawnChoices(board)
    /\ failAt = NoPos
    /\ InitEngine

SearchInitFail ==
    /\ seed \in 0..MaxSeed
    /\ board = <<>>
    /\ drawnAt = NoPos
    /\ failAt \in {p \in Positions : Len(p) <= MaxFailPly}
    /\ InitEngine

\* NegamaxEngine.get_move(board)
\* a counter that is not set back to 0 when a search begins
NegamaxNodesKept(before, counted) == before + counted

\* self.nodes after a search: "self.nodes = 0", then "self.nodes += 1" per node
NegamaxNodes(before, counted) == counted

\* get_move hands the outcome r of its search to the caller
NegamaxReturn(r) ==
    /\ res' = [NoRes EXCEPT !.root = board,
                 !.st = IF r.st = "ok" THEN "returned" ELSE "raised",
                 !.move = IF r.st = "ok" THEN r.move ELSE NoMove,
                 !.best = r.v, !.bal = r.bal, !.failed = r.st = "raise"]
    /\ selfBoard' = r.bd
    /\ nodes' = NegamaxNodes(nodes, r.n)

NegamaxGetMove ==
    /\ engine.kind = "negamax"
    /\ UNCHANGED <<seed, drawnAt, failAt, engine, moveCount, board>>
    /\ UNCHANGED <<curDepth, totalTime>>
    /\ UNCHANGED <<glickoVars, mctsVars, serverVars, pawns, charged>>
    /\ IF Fails(board)
       THEN /\ res' = [NoRes EXCEPT !.root = board, !.st = "raised", !.failed = TRUE]
            /\ selfBoard' = board
            /\ nodes' = nodes
       ELSE IF IsGameOver(board)
       THEN /\ res' = [NoRes EXCEPT !.root = board, !.st = "returned"]
            /\ selfBoard' = board
            /\ nodes' = nodes
       ELSE NegamaxReturn(NegamaxRoot(board, engine.depth))

\* QuiescenceEngine.get_move(board)
\* get_move hands the outcome r of its search to the caller
QuiescenceReturn(r) ==
    /\ res' = [NoRes EXCEPT !.root = board,
                 !.st = IF r.st = "ok" THEN "returned" ELSE "raised",
                 !.move = IF r.st = "ok" THEN r.move ELSE NoMove,
                 !.best = r.v, !.bal = r.bal, !.failed = r.st = "raise",
                 !.plies = r.deep - Len(board)]
    /\ selfBoard' = r.bd
    /\ nodes' = r.n

QuiescenceGetMove ==
    /\ engine.kind = "quiescence"
    /\ UNCHANGED <<seed, drawnAt, failAt, engine, moveCount, board>>
    /\ UNCHANGED <<curDepth, totalTime>>
    /\ UNCHANGED <<glickoVars, mctsVars, serverVars, pawns, charged>>
    /\ IF Fails(board)
       THEN /\ res' = [NoRes EXCEPT !.root = board, !.st = "raised", !.failed = TRUE]
            /\ selfBoard' = board
            /\ nodes' = nodes
       ELSE IF IsGameOver(board)
       THEN /\ res' = [NoRes EXCEPT !.root = board, !.st = "returned"]
            /\ selfBoard' = board
            /\ nodes' = nodes
       ELSE QuiescenceReturn(QRoot(board, engine.depth, engine.q_depth))

\* get_move hands the outcome r of its search to the caller
IterativeReturn(dl, r) ==
    /\ res' = [NoRes EXCEPT !.root = board,
                 !.st = IF r.st = "ok" THEN "returned" ELSE "raised",
                 !.move = IF r.st = "ok" THEN r.move ELSE NoMove,
                 !.bal = r.bal, !.failed = r.st = "raise", !.dl = dl,
                 !.cutDepth = r.cutDepth, !.examined = r.examined]
    /\ selfBoard' = r.bd
    /\ nodes' = r.n

\* IterativeDeepeningEngine.get_move(board), in a run where the time limit is
\* found reached from clock read dl on
IterativeGetMove(dl) ==
    /\ engine.kind = "iterative"
    /\ UNCHANGED <<seed, drawnAt, failAt, engine, moveCount, board>>
    /\ UNCHANGED <<curDepth, totalTime>>
    /\ UNCHANGED <<glickoVars, mctsVars, serverVars, pawns, charged>>
    /\ IF Fails(board)
       THEN /\ res' = [NoRes EXCEPT !.root = board, !.st = "raised", !.failed = TRUE,
                         !.dl = dl]
            /\ selfBoard' = board
            /\ nodes' = nodes
       ELSE IF IsGameOver(board)
       THEN /\ res' = [NoRes EXCEPT !.root = board, !.st = "returned", !.dl = dl]
            /\ selfBoard' = board
            /\ nodes' = nodes
       ELSE IterativeReturn(dl, IDSearch(board, engine.depth, dl))

\* _get_move_impl after its try block, which ended with r; caught says the
\* except branch was taken
MinimaxReturn(r, caught) ==
    /\ board' = r.bd
    /\ nodes' = r.n
    /\ curDepth' = r.current_depth
    /\ IF r.move # NoMove
       THEN /\ res' = [NoRes EXCEPT !.root = board, !.st = "returned",
                         !.move = r.move, !.pair = TRUE, !.score = r.v,
                         !.best = r.v, !.bal = r.bal, !.failed = caught]
            /\ moveCount' = moveCount + 1
       ELSE \* best_move is None: random.choice(list(board.legal_moves)),
            \* on the board as the search left it
            \/ /\ caught \/ NMoves(r.bd) = 0
               \* the oracle fails again, or there is nothing to choose
               /\ res' = [NoRes EXCEPT !.root = board, !.st = "raised",
                            !.bal = r.bal, !.failed = caught]
               /\ moveCount' = moveCount
            \/ \E i \in 1..NMoves(r.bd) :
               /\ res' = [NoRes EXCEPT !.root = board, !.st = "returned",
                            !.move = Mv(r.bd, i), !.pair = TRUE, !.score = 0,
                            !.bal = r.bal, !.failed = caught]
               /\ moveCount' = moveCount + 1

\* the try block of _get_move_impl and what follows it
MinimaxSearch(r) == MinimaxReturn(r, r.st = "caught")

\* MinimaxEngine.get_move(board): BaseChessEngine.get_move around
\* MinimaxEngine._get_move_impl, which searches the caller's board itself.
\* get_move sets nodes_searched and current_depth to 0 before the search and
\* adds the time the call took to total_time whether it returns or raises
MinimaxGetMove ==
    /\ engine.kind = "minimax"
    /\ moveCount < MaxCalls
    /\ totalTime < MaxCalls * MaxElapsed
    /\ \E e \in 1..MaxElapsed : totalTime' = totalTime + e
    /\ selfBoard' = board
    /\ UNCHANGED <<seed, drawnAt, failAt, engine>>
    /\ UNCHANGED <<glickoVars, mctsVars, serverVars, pawns, charged>>
    /\ IF Fails(board)
       THEN \* "if not board.legal_moves" asks the oracle
            /\ res' = [NoRes EXCEPT !.root = board, !.st = "raised", !.failed = TRUE]
            /\ board' = board /\ nodes' = 0 /\ moveCount' = moveCount
            /\ curDepth' = 0
       ELSE IF NMoves(board) = 0
       THEN \* raise ValueError("No legal moves available")
            /\ res' = [NoRes EXCEPT !.root = board, !.st = "raised"]
            /\ board' = board /\ nodes' = 0 /\ moveCount' = moveCount
            /\ curDepth' = 0
       ELSE MinimaxSearch(MinimaxTry(board, engine.depth))

\* a retry predicate that lets every exception through to another attempt
RetryIfAny(exc) == exc # "ok"

\* retry_if_exception_type((chess.engine.EngineError, TimeoutError,
\* ConnectionError))
RetryIf(exc) == exc \in {"EngineError", "TimeoutError", "ConnectionError"}

\* stop_after_attempt(3)
StopAfterAttempt == 3

\* one attempt of BaseChessEngine.get_move(board) under its retry decorator,
\* for an engine whose _get_move_impl returns a move or raises exc: the
\* attempt copies the board, resets the counters, runs _get_move_impl and
\* accounts the time; the decorator then returns, tries again or re-raises
BaseGetMove ==
    /\ engine.kind = "base"
    /\ moveCount < MaxCalls
    /\ totalTime < StopAfterAttempt * MaxCalls * MaxElapsed
    /\ \E e \in 1..MaxElapsed : totalTime' = totalTime + e
    /\ selfBoard' = board /\ nodes' = 0 /\ curDepth' = 0
    /\ UNCHANGED <<seed, drawnAt, failAt, engine, board>>
    /\ UNCHANGED <<glickoVars, mctsVars, serverVars, pawns, charged>>
    /\ \E exc \in {"ok", "EngineError", "TimeoutError", "ConnectionError",
                    "RuntimeError", "ValueError"} :
          LET k == IF res.st = "retrying" THEN res.attempts + 1 ELSE 1
          IN IF exc = "ok"
             THEN /\ NMoves(board) > 0
                  /\ res' = [NoRes EXCEPT !.root = board, !.st = "returned",
                                !.move = Mv(board, 1), !.pair = TRUE,
                                !.attempts = k, !.exc = exc]
                  /\ moveCount' = moveCount + 1
             ELSE /\ res' = [NoRes EXCEPT !.root = board, !.attempts = k, !.exc = exc,
                                !.st = IF RetryIf(exc) /\ k < StopAfterAttempt
                                       THEN "retrying" ELSE "raised"]
                  /\ moveCount' = moveCount

-----------------------------------------------------------------------------
(* heuristics.evaluate_position: the isolated-pawn term                     *)

PawnsIdle ==
    /\ pawns = [white |-> [file \in 0..7 |-> 0], black |-> [file \in 0..7 |-> 0]]
    /\ charged = [done |-> FALSE, white |-> 0, black |-> 0]

\* the files for which the loop "for file in range(8)" finds white_isolated
\* resp. black_isolated true, ps being the pawns of that colour by file
IsolatedFiles(ps) ==
    {file \in 0..7 : /\ file > 0 /\ file < 7
                     /\ ps[file] > 0
                     /\ ps[file - 1] = 0
                     /\ ps[file + 1] = 0}

\* the isolated-pawn loop of evaluate_position: "score -= white_isolated * 30"
\* and "score += black_isolated * 30" once per file
EvaluatePosition ==
    /\ ~charged.done
    /\ charged' = [done |-> TRUE,
                   white |-> 30 * Cardinality(IsolatedFiles(pawns.white)),
                   black |-> 30 * Cardinality(IsolatedFiles(pawns.black))]
    /\ UNCHANGED <<searchVars, glickoVars, mctsVars, serverVars, pawns>>

-----------------------------------------------------------------------------
(* The game server (main.py): one human_vs_bot or bot_vs_bot game whose     *)
(* human plays White, so that the engine that replies is game["engine2"].   *)
(* make_move awaits the engine between the player's move and the reply.     *)

\* no record_match_result call is under way
NoMatch == [pc |-> "idle", a |-> "none", b |-> "none", score2 |-> 0,
            rating_a |-> [rating |-> 0, rd |-> 0, vol |-> 0],
            rating_b |-> [rating |-> 0, rd |-> 0, vol |-> 0]]

ServerIdle ==
    /\ game = [game_mode |-> "none", move_times |-> <<>>, engine |-> <<>>]
    /\ resp = [st |-> "idle", status |-> 0, detail |-> "", move |-> 0]
    /\ leaderboard = <<>>
    /\ match = NoMatch

\* make_move(game_id, move) for a game in games and a well-formed move, up to
\* "await current_engine.get_move(board)"; the move is the i-th legal move, or
\* no legal move when i is not the index of one.  An HTTPException raised
\* inside the try block is caught by "except Exception" and raised again with
\* status 500 and detail str(e), which is "<status>: <detail>" or empty
\* according to the version of the web framework
MakeMove(i) ==
    /\ resp.st # "awaiting"
    /\ UNCHANGED <<seed, drawnAt, failAt, engine, nodes, moveCount, curDepth, totalTime>>
    /\ UNCHANGED <<glickoVars, mctsVars, pawns, charged, leaderboard, match>>
    /\ IF game.game_mode = "bot_vs_bot" \/ i > NMoves(board)
       THEN /\ \E d \in {"", IF game.game_mode = "bot_vs_bot"
                              THEN "400: Cannot make moves in bot vs bot mode"
                              ELSE "400: Illegal move"} :
                  resp' = [st |-> "done", status |-> 500, detail |-> d, move |-> i]
            /\ UNCHANGED <<board, selfBoard, res, game>>
       ELSE /\ board' = Push(board, i)
            /\ game' = [game EXCEPT !.move_times = Append(@, 0), !.engine = board']
            /\ selfBoard' = board'
            /\ res' = NoRes
            /\ resp' = IF IsGameOver(board')
                       THEN [st |-> "done", status |-> 200, detail |-> "", move |-> i]
                       ELSE [st |-> "awaiting", status |-> 0, detail |-> "", move |-> i]

\* make_move after the engine's get_move has come back: the engine's move is
\* pushed and the response built; a ValueError becomes status 400
EngineReplied ==
    /\ resp.st = "awaiting"
    /\ res # NoRes
    /\ UNCHANGED <<seed, drawnAt, failAt, engine, nodes, moveCount, curDepth, totalTime, res>>
    /\ UNCHANGED <<glickoVars, mctsVars, pawns, charged, leaderboard, match>>
    /\ IF res.st = "returned"
       THEN /\ board' = Push(board, res.move.ix)
            /\ game' = [game EXCEPT !.engine = board']
            /\ selfBoard' = board'
            /\ resp' = [resp EXCEPT !.st = "done", !.status = 200]
       ELSE /\ resp' = [resp EXCEPT !.st = "done", !.status = 400,
                          !.detail = "No legal moves available"]
            /\ UNCHANGED <<board, selfBoard, game>>

-----------------------------------------------------------------------------
(* Glicko-2 rating calculator.  Floats are held on fixed-point grids and   *)
(* rounded to the grid after every operation: ratings and deviations in    *)
(* whole rating points, the volatility, logarithms and the values of f in  *)
(* thousandths, the squared quantities inside f in thousandths.            *)

Abs(x) == IF x < 0 THEN -x ELSE x

\* a / b rounded to the nearest grid point, b # 0
RDiv(a, b) == IF b > 0 THEN (a + b \div 2) \div b ELSE ((-a) + (-b) \div 2) \div (-b)

RECURSIVE Pow2(_)
Pow2(q) == IF q = 0 THEN 1 ELSE 2 * Pow2(q - 1)

RECURSIVE Log2Floor(_)
Log2Floor(n) == IF n < 2 THEN 0 ELSE 1 + Log2Floor(n \div 2)

\* the largest r in lo..hi with r * r <= n, by bisection
RECURSIVE SqrtFloor(_, _, _)
SqrtFloor(n, lo, hi) ==
    IF lo >= hi THEN lo
    ELSE LET mid == (lo + hi + 1) \div 2
         IN IF mid * mid <= n THEN SqrtFloor(n, mid, hi) ELSE SqrtFloor(n, lo, mid - 1)

\* math.sqrt on whole numbers, rounded to the nearest whole number
Sqrt(n) == (SqrtFloor(4 * n, 0, 40000) + 1) \div 2

\* math.log(n) in thousandths, n >= 1 a whole number:
\* n = 2^e * m with m in [1, 2), ln m = 2 atanh((m - 1) / (m + 1))
LnInt(n) ==
    LET e == Log2Floor(n)
        m == IF e >= 10 THEN n \div Pow2(e - 10) ELSE n * Pow2(10 - e)
        z == ((m - 1024) * 1000) \div (m + 1024)
        z2 == (z * z) \div 1000
        z3 == (z2 * z) \div 1000
        z5 == (z3 * z2) \div 1000
    IN (e * 693147) \div 1000 + 2 * (z + z3 \div 3 + z5 \div 5)

\* math.log of a quantity given in thousandths
LnMilli(nm) == LnInt(nm) - 6908

\* math.exp(x), x and the result in thousandths: x = q ln 2 + r
ExpMilli(x) ==
    LET q == x \div 693
        r == x - 693 * q
        er == 1000 + r + (r * r) \div 2000 + (r * r * r) \div 6000000
                   + (((r * r * r) \div 6000) * r) \div 4000000
    IN IF q < -20 THEN 0
       ELSE IF q < 0 THEN RDiv(er, Pow2(-q))
       ELSE er * Pow2(Min(q, 18))

\* eps = 0.000001 of _update_volatility, widened to the rounding error of the
\* grid: two thousandths
Eps == 2

\* tau = 0.5 in thousandths, and 1 / tau^2
TauMilli == 500
InvTauSq == (1000 \div TauMilli) * (1000 \div TauMilli)

\* the ceiling min(..., 350.0) resp. min(..., 500.0) on the returned rd
RdCapBackend == 350
RdCapChessBot == 500
RdCap(mod) == IF mod = "backend" THEN RdCapBackend ELSE RdCapChessBot

\* vol ** 2 in rating points squared, vol in thousandths
VolSq(vol) == RDiv(vol * vol, 1000000)
\* vol ** 2 in thousandths
VolSqMilli(vol) == RDiv(vol * vol, 1000)

\* a deviation from which the squared volatility is taken away
WidenLess(rd, vol) == Sqrt(rd * rd - VolSq(vol))

\* math.sqrt(rating.rd ** 2 + rating.vol ** 2)
Widen(rd, vol) == Sqrt(rd * rd + VolSq(vol))

\* an update that writes the new rd into the object it was given
EmptyUpdateInPlace(rating, mod) ==
    LET new == [rating EXCEPT !.rd = Min(Widen(rating.rd, rating.vol), RdCap(mod))]
    IN [out |-> new, arg |-> new]

\* the branch "if not results" of Glicko2.update_rating: out is the rating
\* returned, arg the object passed in as the call leaves it
EmptyUpdate(rating, mod) ==
    [out |-> [rating |-> rating.rating,
              rd |-> Min(Widen(rating.rd, rating.vol), RdCap(mod)),
              vol |-> rating.vol],
     arg |-> rating]

\* the inner function f of _update_volatility, x in thousandths
F(x, a, rating, v, delta) ==
    LET ex == ExpMilli(x)
        sm == (rating.rd * rating.rd + v) * 1000
        unit == (sm + ex) \div 1000
        r1 == RDiv(ex, unit)                                   \* ex / (rd^2 + v + ex)
        r2 == RDiv(delta * delta * 1000 - sm - ex, 2 * unit)   \* (delta^2 - rd^2 - v - ex) / 2(...)
        numden == RDiv(r1 * r2, 1000)
    IN x - a - numden * InvTauSq

\* math.pi ** 2 in thousandths
PiSqMilli == 9870

\* 1 / _g(rd) ** 2 = 1 + 3 rd^2 / pi^2, and 1 / _g(rd) in tenths
GInvSq(rd) == 1 + RDiv(3 * rd * rd * 1000, PiSqMilli)
GInv(rd) == Sqrt(GInvSq(rd) * 100)

\* _E(rating, opp_r, opp_rd) in thousandths; 400.0 is the scale of the curve
Expected(rating, opp_r, opp_rd) ==
    RDiv(1000000, 1000 + ExpMilli(-RDiv((rating - opp_r) * 25, GInv(opp_rd))))

\* a GameResult: opponent_rating, opponent_rd and the score in halves
NoResult == [opp_r |-> 0, opp_rd |-> 0, score2 |-> -1]

\* E (1 - E) of the one result, in hundred-thousandths
VInvDen(rating, result) ==
    RDiv(Expected(rating, result.opp_r, result.opp_rd)
         * (1000 - Expected(rating, result.opp_r, result.opp_rd)), 100)

\* v = 1.0 / self._v_inv(rating.rating, results)
Variance(rating, result) == RDiv(GInvSq(result.opp_rd) * 10000, VInvDen(rating, result))

\* w * sum(g(opp_rd) * (score - E)) over the one result: delta of step 2 with
\* w = v, the rating change of step 5 with w = rd_new ** 2
Weighted(w, rating, result) ==
    RDiv(w * (500 * result.score2 - Expected(rating, result.opp_r, result.opp_rd)),
         100 * GInv(result.opp_rd))

\* rd_star = math.sqrt(rating.rd ** 2 + vol_new ** 2), squared
RdStarSq(rd, vol_new) == rd * rd + VolSq(vol_new)

\* rd_new ** 2 = 1 / (1 / rd_star ** 2 + 1 / v)
RdNewSq(rd, vol_new, v) ==
    RDiv(RdStarSq(rd, vol_new) * RDiv(v * 1000, RdStarSq(rd, vol_new) + v), 1000)

\* the ceiling min(rd_new, 350.0) resp. min(rd_new, 500.0) of the branch
\* with results
RdCapResultsBackend == 350
RdCapResultsChessBot == 500
RdCapResults(mod) == IF mod = "backend" THEN RdCapResultsBackend ELSE RdCapResultsChessBot

\* steps 4 and 5 of update_rating and the GlickoRating it returns
RatedUpdate(rating, result, v, vol_new, mod) ==
    [rating |-> rating.rating
                  + Weighted(RdNewSq(rating.rd, vol_new, v), rating.rating, result),
     rd |-> Min(Sqrt(RdNewSq(rating.rd, vol_new, v)), RdCapResults(mod)),
     vol |-> vol_new]

\* the calculator can be called: nothing is running
Ready == gpc \in {"idle", "created"}

NoVs == [a |-> 0, k |-> 0, A |-> 0, B |-> 0, fa |-> 0, fb |-> 0, iters |-> 0, vol |-> 0]
NoGame == [v |-> 0, delta |-> 0]

\* Glicko2.update_rating(rating, []) and its return
UpdateRatingEmpty ==
    /\ UNCHANGED <<searchVars, mctsVars, serverVars, pawns, charged>>
    /\ match.pc = "idle"
    /\ Ready
    /\ LET u == EmptyUpdate(gIn, gmod)
       IN /\ gOut' = u.out
          /\ gIn' = u.arg
    /\ gArg' = gIn
    /\ gpc' = "returned"
    /\ UNCHANGED <<gmod, gRes, gn, gGame, vs>>

\* the caller puts the returned rating in the place of the old one
StoreRating ==
    /\ UNCHANGED <<searchVars, mctsVars, serverVars, pawns, charged>>
    /\ match.pc = "idle"
    /\ gpc \in {"returned", "rated"}
    /\ gIn' = gOut
    /\ gpc' = "idle"
    /\ UNCHANGED <<gmod, gArg, gRes, gn, gGame, gOut, vs>>

\* steps 1 and 2 of update_rating have given v and delta; the call
\* _update_volatility(rating, v, delta) up to the choice of the bounds A, B
VolatilityBounds(v, delta) ==
    /\ gGame' = [v |-> v, delta |-> delta]
    /\ IF VolSqMilli(gIn.vol) < 1
       THEN \* math.log(0.0) raises ValueError
            /\ gpc' = "error"
            /\ vs' = NoVs
       ELSE IF delta * delta > gIn.rd * gIn.rd + v
       THEN /\ vs' = [NoVs EXCEPT !.a = LnMilli(VolSqMilli(gIn.vol)),
                        !.A = LnMilli(VolSqMilli(gIn.vol)),
                        !.B = LnInt(delta * delta - gIn.rd * gIn.rd - v),
                        !.fa = F(LnMilli(VolSqMilli(gIn.vol)), LnMilli(VolSqMilli(gIn.vol)),
                                 gIn, v, delta),
                        !.fb = F(LnInt(delta * delta - gIn.rd * gIn.rd - v),
                                 LnMilli(VolSqMilli(gIn.vol)), gIn, v, delta)]
            /\ gpc' = "illinois"
       ELSE /\ vs' = [NoVs EXCEPT !.a = LnMilli(VolSqMilli(gIn.vol)),
                        !.A = LnMilli(VolSqMilli(gIn.vol)), !.k = 1]
            /\ gpc' = "bracket"

\* Glicko2.update_rating(rating, results) with one result, up to the loops of
\* _update_volatility
VolatilityBegin ==
    /\ UNCHANGED <<searchVars, mctsVars, serverVars, pawns, charged>>
    /\ Ready
    /\ gRes # NoResult
    /\ gn < MaxPeriods
    /\ gn' = gn + 1
    /\ gArg' = gIn
    /\ UNCHANGED <<gmod, gIn, gRes, gOut>>
    /\ IF VInvDen(gIn.rating, gRes) = 0
       THEN \* 1.0 / v_inv raises ZeroDivisionError
            /\ gpc' = "error"
            /\ vs' = NoVs
            /\ gGame' = NoGame
       ELSE VolatilityBounds(Variance(gIn.rating, gRes),
                             Weighted(Variance(gIn.rating, gRes), gIn.rating, gRes))

\* one test of "while f(a - k * self.tau) < 0" and what follows it
BracketStep ==
    /\ UNCHANGED <<searchVars, mctsVars, serverVars, pawns, charged>>
    /\ gpc = "bracket"
    /\ vs.k < MaxBracket
    /\ UNCHANGED <<gmod, gIn, gArg, gRes, gn, gGame, gOut>>
    /\ LET x == vs.a - vs.k * TauMilli
       IN IF F(x, vs.a, gIn, gGame.v, gGame.delta) < 0
          THEN /\ vs' = [vs EXCEPT !.k = vs.k + 1]
               /\ gpc' = "bracket"
          ELSE /\ vs' = [vs EXCEPT !.B = x,
                           !.fa = F(vs.A, vs.a, gIn, gGame.v, gGame.delta),
                           !.fb = F(x, vs.a, gIn, gGame.v, gGame.delta)]
               /\ gpc' = "illinois"

\* one test of "while abs(B - A) > eps" and what follows it
IllinoisStep ==
    /\ UNCHANGED <<searchVars, mctsVars, serverVars, pawns, charged>>
    /\ gpc = "illinois"
    /\ vs.iters < MaxIllinois
    /\ UNCHANGED <<gmod, gIn, gArg, gRes, gn, gGame, gOut>>
    /\ IF ~(Abs(vs.B - vs.A) > Eps)
       THEN \* return math.exp(A / 2)
            /\ vs' = [vs EXCEPT !.vol = ExpMilli(RDiv(vs.A, 2))]
            /\ gpc' = "volatility"
       ELSE IF vs.fb - vs.fa = 0
       THEN \* ZeroDivisionError
            /\ vs' = vs
            /\ gpc' = "error"
       ELSE LET C == vs.A + RDiv((vs.A - vs.B) * vs.fa, vs.fb - vs.fa)
                fc == F(C, vs.a, gIn, gGame.v, gGame.delta)
            IN /\ vs' = [vs EXCEPT
                           !.A = IF fc * vs.fb < 0 THEN vs.B ELSE vs.A,
                           !.fa = IF fc * vs.fb < 0 THEN vs.fb ELSE RDiv(vs.fa, 2),
                           !.B = C, !.fb = fc, !.iters = vs.iters + 1]
               /\ gpc' = "illinois"

\* update_rating after _update_volatility has returned vs.vol: steps 4 and 5
\* and the return
UpdateRatingFinish ==
    /\ UNCHANGED <<searchVars, mctsVars, serverVars, pawns, charged>>
    /\ gpc = "volatility"
    /\ gOut' = RatedUpdate(gIn, gRes, gGame.v, vs.vol, gmod)
    /\ gpc' = "rated"
    /\ UNCHANGED <<gmod, gIn, gArg, gRes, gn, gGame, vs>>

\* DEFAULT_RATING, DEFAULT_RD and DEFAULT_VOLATILITY of each module (the
\* volatility in thousandths)
DefaultRatingValue == 1500
DefaultRdBackend == 350
DefaultRdChessBot == 500
DefaultVol == 60

\* GlickoRating.default() of the module mod
DefaultRating(mod) ==
    [rating |-> DefaultRatingValue,
     rd |-> IF mod = "backend" THEN DefaultRdBackend ELSE DefaultRdChessBot,
     vol |-> DefaultVol]

\* a player appears for the first time: get_or_create_rating on a name the
\* leaderboard does not hold, GlickoRating.default()
CreateRating ==
    /\ UNCHANGED <<searchVars, mctsVars, serverVars, pawns, charged>>
    /\ match.pc = "idle"
    /\ gpc = "idle"
    /\ gIn' = DefaultRating(gmod)
    /\ gn' = 0
    /\ gpc' = "created"
    /\ UNCHANGED <<gmod, gArg, gRes, gGame, gOut, vs>>

\* leaderboard.record_match_result(bot_a, bot_b, score_a) in three steps: the
\* two get_or_create_rating calls and the call of update_rating for bot_a;
\* its return, the assignment of leaderboard[bot_a] and the call of
\* update_rating for bot_b; its return and the assignment of leaderboard[bot_b].
\* update_rating itself runs by VolatilityBegin .. UpdateRatingFinish.  The
\* names are any of "a", "b", "c"; lb is the leaderboard after the two
\* get_or_create_rating calls
RecordMatchResult ==
    /\ UNCHANGED <<searchVars, mctsVars, pawns, charged, game, resp>>
    /\ gmod = "backend"
    /\ UNCHANGED <<gmod, gArg, gGame, gOut, vs>>
    /\ gn' = 0
    /\ gpc' = "idle"
    /\ IF match.pc = "idle"
       THEN /\ Ready
            /\ \E a \in {"a", "b", "c"}, b \in {"a", "b", "c"}, s2 \in {0, 1, 2} :
                 LET lb == [n \in DOMAIN leaderboard \cup {a, b} |->
                              IF n \in DOMAIN leaderboard THEN leaderboard[n]
                              ELSE DefaultRating("backend")]
                 IN /\ leaderboard' = lb
                    /\ match' = [pc |-> "a", a |-> a, b |-> b, score2 |-> s2,
                                 rating_a |-> lb[a], rating_b |-> lb[b]]
                    /\ gIn' = lb[a]
                    /\ gRes' = [opp_r |-> lb[b].rating, opp_rd |-> lb[b].rd,
                                score2 |-> s2]
       ELSE /\ gpc = "rated"
            /\ IF match.pc = "a"
               THEN /\ leaderboard' = [leaderboard EXCEPT ![match.a] = gOut]
                    /\ match' = [match EXCEPT !.pc = "b"]
                    /\ gIn' = match.rating_b
                    /\ gRes' = [opp_r |-> match.rating_a.rating,
                                opp_rd |-> match.rating_a.rd,
                                score2 |-> 2 - match.score2]
               ELSE /\ leaderboard' = [leaderboard EXCEPT ![match.b] = gOut]
                    /\ match' = NoMatch
                    /\ UNCHANGED <<gIn, gRes>>


\* ratings and results the calculator is run on
GlickoInputs ==
    {   \* a default player beats, and draws, a default player (rd 350)
        [r |-> [rating |-> 1500, rd |-> 350, vol |-> 60],
         res |-> [opp_r |-> 1500, opp_rd |-> 350, score2 |-> 2]],
        [r |-> [rating |-> 1500, rd |-> 350, vol |-> 60],
         res |-> [opp_r |-> 1500, opp_rd |-> 350, score2 |-> 1]],
        \* the same with the default rd 500 of chess_bot_backend
        [r |-> [rating |-> 1500, rd |-> 500, vol |-> 60],
         res |-> [opp_r |-> 1500, opp_rd |-> 500, score2 |-> 2]],
        \* a player beats an opponent rated far below
        [r |-> [rating |-> 1500, rd |-> 350, vol |-> 60],
         res |-> [opp_r |-> 500, opp_rd |-> 350, score2 |-> 2]],
        [r |-> [rating |-> 2000, rd |-> 100, vol |-> 60],
         res |-> [opp_r |-> 1000, opp_rd |-> 50, score2 |-> 2]],
        \* 3000/30 loses to 0/500; 1500/30 beats 3000/500
        [r |-> [rating |-> 3000, rd |-> 30, vol |-> 60],
         res |-> [opp_r |-> 0, opp_rd |-> 500, score2 |-> 0]],
        [r |-> [rating |-> 1500, rd |-> 30, vol |-> 60],
         res |-> [opp_r |-> 3000, opp_rd |-> 500, score2 |-> 2]],
        \* a player of volatility 40 draws with an equal
        [r |-> [rating |-> 1500, rd |-> 30, vol |-> 40000],
         res |-> [opp_r |-> 1500, opp_rd |-> 30, score2 |-> 1]],
        \* a player of volatility 40 beats an opponent rated far below
        [r |-> [rating |-> 1500, rd |-> 30, vol |-> 40000],
         res |-> [opp_r |-> 500, opp_rd |-> 30, score2 |-> 2]] }
    \cup
    [r : [rating : {1500}, rd : {30, 300, 349, 350, 351, 400, 499, 500},
          vol : {0, 60, 30000}],
     res : {NoResult}]

-----------------------------------------------------------------------------
(* MCTSEngine.  The tree is a function from the positions that have a node *)
(* to the node's counters; a node's parent is the position one move back.  *)
(* wins is kept in thousandths.  The clock "time.time() < end_time" lets   *)
(* the loop stop after any number of iterations up to MaxSims.             *)

\* random.shuffle(self.untried_moves): the orders n moves can be left in
Shuffles(n) == {s \in [1..n -> 1..n] : \A i, j \in 1..n : s[i] = s[j] => i = j}

\* MCTSNode.__init__ with the shuffled legal moves s
MCTSNode(s) == [visits |-> 0, wins |-> 0, untried_moves |-> s, children |-> <<>>]

\* win_prob = 1.0 / (1.0 + math.exp(-result / 100.0)), in thousandths
Sigmoid(result) == RDiv(1000000, 1000 + ExpMilli(-result * 10))

\* MCTSNode.ucb1 of the node at c, which has a parent, in thousandths
Ucb1(t, c) ==
    IF t[c].visits = 0 THEN Inf
    ELSE RDiv(t[c].wins, t[c].visits)
         + RDiv(1414 * Sqrt(RDiv(LnInt(t[Pop(c)].visits), t[c].visits) * 1000), 1000)

\* max(..., key=...) over a list whose keys are given: the first largest
MaxChild(keys) ==
    CHOOSE i \in 1..Len(keys) :
        /\ \A j \in 1..Len(keys) : keys[j] <= keys[i]
        /\ \A j \in 1..(i - 1) : keys[j] < keys[i]

\* the selection loop of get_move, begun at node n
RECURSIVE Select(_, _)
Select(t, n) ==
    IF t[n].untried_moves = <<>> /\ t[n].children # <<>>
    THEN Select(t, Push(n, t[n].children[
             MaxChild([i \in 1..Len(t[n].children) |->
                          Ucb1(t, Push(n, t[n].children[i]))])]))
    ELSE n

\* the position of the child that node.expand() builds
Expanded(t, n) == Push(n, t[n].untried_moves[Len(t[n].untried_moves)])

\* an expand that leaves the move it expands among the untried ones
ExpandKeeping(t, n, s) ==
    (Expanded(t, n) :> MCTSNode(s))
    @@ [t EXCEPT ![n].children = Append(@, t[n].untried_moves[Len(t[n].untried_moves)])]

\* MCTSNode.expand: the last untried move is popped and the child built on it,
\* its moves shuffled as s, is appended to the children
Expand(t, n, s) ==
    (Expanded(t, n) :> MCTSNode(s))
    @@ [t EXCEPT ![n].untried_moves = SubSeq(@, 1, Len(@) - 1),
                 ![n].children = Append(@, t[n].untried_moves[Len(t[n].untried_moves)])]

\* the positions at which a random playout from p can end
RECURSIVE RolloutEnds(_)
RolloutEnds(p) ==
    IF IsGameOver(p) \/ NMoves(p) = 0 THEN {p}
    ELSE UNION {RolloutEnds(Push(p, i)) : i \in 1..NMoves(p)}

\* a backpropagate whose visit counter wraps around after two visits
CreditWrapping(t, n, result) ==
    [t EXCEPT ![n].visits = (@ % 2) + 1, ![n].wins = @ + Sigmoid(result)]

\* the first three lines of MCTSNode.backpropagate
Credit(t, n, result) ==
    [t EXCEPT ![n].visits = @ + 1, ![n].wins = @ + Sigmoid(result)]

\* a backpropagate that hands the result up as it is
RECURSIVE BackpropagateSameSign(_, _, _, _)
BackpropagateSameSign(t, rt, n, result) ==
    IF n = rt THEN Credit(t, n, result)
    ELSE BackpropagateSameSign(Credit(t, n, result), rt, Pop(n), result)

\* a backpropagate that stops at the node it is called on
BackpropagateNodeOnly(t, rt, n, result) == Credit(t, n, result)

\* MCTSNode.backpropagate(result) on the node at n; the node at rt has no parent
RECURSIVE Backpropagate(_, _, _, _)
Backpropagate(t, rt, n, result) ==
    IF n = rt THEN Credit(t, n, result)
    ELSE Backpropagate(Credit(t, n, result), rt, Pop(n), -result)

\* the root child with the best win rate
BestChildByWinRate(t, rt) ==
    t[rt].children[MaxChild([i \in 1..Len(t[rt].children) |->
        RDiv(t[Push(rt, t[rt].children[i])].wins,
             Max(t[Push(rt, t[rt].children[i])].visits, 1))])]

\* best_child = max(self.root.children, key=lambda n: n.visits)
BestChild(t, rt) ==
    t[rt].children[MaxChild([i \in 1..Len(t[rt].children) |->
        t[Push(rt, t[rt].children[i])].visits])]

\* the visit count of the root child that get_move would return now
SelectedVisits == tree[Push(root, BestChild(tree, root))].visits

\* a get_move that builds its root before it looks at the board
RootOfTerminalFresh(b, rt) == b

\* self.root after get_move(b) has returned None on the terminal board b
RootOfTerminal(b, rt) == rt

\* MCTSEngine.get_move(board) up to the simulation loop
MctsGetMove ==
    /\ UNCHANGED <<searchVars, glickoVars, serverVars, pawns, charged>>
    /\ mpc \in {"idle", "done"}
    /\ \E b \in {p \in Positions : Len(p) <= MaxRootPly} :
         /\ mArg' = b
         /\ IF IsGameOver(b)
            THEN /\ root' = RootOfTerminal(b, root)
                 /\ tree' = IF RootOfTerminal(b, root) = root THEN tree
                            ELSE (b :> MCTSNode(<<>>))
                 /\ mMove' = NoMove
                 /\ mpc' = "done"
                 /\ UNCHANGED <<sims, last>>
            ELSE /\ root' = b
                 /\ \E s \in Shuffles(NMoves(b)) : tree' = (b :> MCTSNode(s))
                 /\ sims' = 0
                 /\ last' = [node |-> NoPos, result |-> 0, end |-> NoPos]
                 /\ mMove' = NoMove
                 /\ mpc' = "loop"

\* node.rollout(), evaluate_position of the board the playout ended on, and
\* node.backpropagate(result) for the node at n of the tree t
Rollout(t, n) ==
    \E q \in RolloutEnds(n) :
        /\ tree' = Backpropagate(t, root, n, Evaluate(q))
        /\ last' = [node |-> n, result |-> Evaluate(q), end |-> q]

\* an iteration that expands the selected node and then plays out from that
\* node, not from the child it has just built
IterationFromParent(n) ==
    IF tree[n].untried_moves # <<>>
    THEN \E s \in Shuffles(NMoves(Expanded(tree, n))) : Rollout(Expand(tree, n, s), n)
    ELSE Rollout(tree, n)

\* expansion of the selected node at n, then the rest of the iteration
Iteration(n) ==
    IF tree[n].untried_moves # <<>>
    THEN \E s \in Shuffles(NMoves(Expanded(tree, n))) :
             Rollout(Expand(tree, n, s), Expanded(tree, n))
    ELSE Rollout(tree, n)

\* one iteration of "while time.time() < end_time"
Simulate ==
    /\ UNCHANGED <<searchVars, glickoVars, serverVars, pawns, charged>>
    /\ mpc = "loop"
    /\ sims < MaxSims
    /\ Iteration(Select(tree, root))
    /\ sims' = sims + 1
    /\ UNCHANGED <<root, mArg, mMove, mpc>>

\* the time is over: "Choose best move" and return
MctsReturn ==
    /\ UNCHANGED <<searchVars, glickoVars, serverVars, pawns, charged>>
    /\ mpc = "loop"
    /\ mMove' = IF tree[root].children = <<>> THEN NoMove
                ELSE Mv(root, BestChild(tree, root))
    /\ mpc' = "done"
    /\ UNCHANGED <<root, tree, sims, mArg, last>>

MctsIdle ==
    /\ root = NoPos
    /\ tree = (NoPos :> MCTSNode(<<>>))
    /\ sims = 0
    /\ mArg = NoPos
    /\ mMove = NoMove
    /\ mpc = "idle"
    /\ last = [node |-> NoPos, result |-> 0, end |-> NoPos]

GlickoIdle ==
    /\ gmod = "backend"
    /\ gIn = DefaultRating("backend")
    /\ gArg = gIn
    /\ gRes = NoResult
    /\ gn = 0
    /\ gGame = NoGame
    /\ gOut = gIn
    /\ gpc = "idle"
    /\ vs = NoVs

SearchIdle ==
    /\ seed = 0
    /\ board = <<>>
    /\ drawnAt = NoPos
    /\ failAt = NoPos
    /\ engine = [kind |-> "negamax", depth |-> 1, q_depth |-> 0]
    /\ nodes = 0
    /\ moveCount = 0
    /\ selfBoard = <<>>
    /\ res = NoRes
    /\ curDepth = 0
    /\ totalTime = 0

GlickoInit ==
    /\ gmod \in {"backend", "chess_bot"}
    /\ \E i \in GlickoInputs :
         /\ gIn = i.r
         /\ gRes = i.res
    /\ gn = 0
    /\ gGame = NoGame
    /\ gArg = gIn
    /\ gOut = gIn
    /\ gpc = "idle"
    /\ vs = NoVs

\* the engines of Spec are not run: the oracle alone is drawn
OracleInit ==
    /\ seed \in 0..MaxSeed
    /\ board = <<>>
    /\ drawnAt \in DrawnChoices(board)
    /\ failAt = NoPos
    /\ engine = [kind |-> "negamax", depth |-> 1, q_depth |-> 0]
    /\ nodes = 0
    /\ moveCount = 0
    /\ selfBoard = <<>>
    /\ res = NoRes
    /\ curDepth = 0
    /\ totalTime = 0

Init == SearchInit /\ GlickoIdle /\ MctsIdle /\ ServerIdle /\ PawnsIdle
InitFail == SearchInitFail /\ GlickoIdle /\ MctsIdle /\ ServerIdle /\ PawnsIdle
InitGlicko == SearchIdle /\ GlickoInit /\ MctsIdle /\ ServerIdle /\ PawnsIdle
InitMcts == OracleInit /\ GlickoIdle /\ MctsIdle /\ ServerIdle /\ PawnsIdle

\* create_game_state: a new board, two minimax engines of the same depth
InitServer ==
    /\ SearchInit
    /\ board = <<>>
    /\ engine.kind = "minimax"
    /\ GlickoIdle /\ MctsIdle /\ PawnsIdle
    /\ game \in [game_mode : {"human_vs_bot", "bot_vs_bot"}, move_times : {<<>>},
                 engine : {<<>>}]
    /\ resp = [st |-> "idle", status |-> 0, detail |-> "", move |-> 0]
    /\ leaderboard = <<>>
    /\ match = NoMatch

Next ==
    \/ NegamaxGetMove
    \/ QuiescenceGetMove
    \/ \E dl \in 0..MaxClock \cup {NoExpiry} : IterativeGetMove(dl)
    \/ MinimaxGetMove
    \/ BaseGetMove

NextGlicko ==
    \/ UpdateRatingEmpty
    \/ StoreRating
    \/ VolatilityBegin
    \/ BracketStep
    \/ IllinoisStep
    \/ UpdateRatingFinish
    \/ CreateRating
    \/ RecordMatchResult

NextMcts ==
    \/ MctsGetMove
    \/ Simulate
    \/ MctsReturn

\* a board whose pawns are any of one colour, at most 8 and at most
\* MaxFilePawns on a file, and none or the same across the board of the other
InitPawns ==
    /\ SearchIdle /\ GlickoIdle /\ MctsIdle /\ ServerIdle
    /\ charged = [done |-> FALSE, white |-> 0, black |-> 0]
    /\ \E ps \in [0..7 -> 0..MaxFilePawns] :
          /\ ps[0] + ps[1] + ps[2] + ps[3] + ps[4] + ps[5] + ps[6] + ps[7] <= 8
          /\ \E qs \in {[file \in 0..7 |-> 0], [file \in 0..7 |-> ps[7 - file]]} :
                pawns \in {[white |-> ps, black |-> qs], [white |-> qs, black |-> ps]}

NextServer ==
    \/ \E i \in 1..MaxBranch + 1 : MakeMove(i)
    \/ (resp.st = "awaiting" /\ res = NoRes /\ MinimaxGetMove)
    \/ EngineReplied

Spec == Init /\ [][Next]_vars

SpecServer == InitServer /\ [][NextServer]_vars

SpecPawns == InitPawns /\ [][EvaluatePosition]_vars

SpecFail == InitFail /\ [][Next]_vars

SpecGlicko == InitGlicko /\ [][NextGlicko]_vars

SpecMcts == InitMcts /\ [][NextMcts]_vars

-----------------------------------------------------------------------------
(* Reference: full-width search without pruning                            *)

SetMax(S) == CHOOSE x \in S : \A y \in S : x >= y

RECURSIVE FullValue(_, _, _)
\* the negamax value of p searched depth plies deep with no pruning, from the
\* side to move's point of view; mm selects MinimaxEngine's evaluator
FullValue(p, depth, mm) ==
    IF depth = 0 \/ IsGameOver(p)
    THEN (IF mm THEN MinimaxEvaluate(p) ELSE Evaluate(p)) * Sign(p)
    ELSE SetMax({-FullValue(Push(p, i), depth - 1, mm) : i \in 1..NMoves(p)})

\* the first move of p, in enumeration order, that attains the full-width value
FullBest(p, depth, mm) ==
    LET best == FullValue(p, depth, mm)
        hits == {i \in 1..NMoves(p) : -FullValue(Push(p, i), depth - 1, mm) = best}
    IN Mv(p, CHOOSE i \in hits : \A j \in hits : i <= j)

RECURSIVE FullCount(_, _), FullSum(_, _, _)
\* the nodes of the full-width tree of p, p included
FullCount(p, depth) ==
    IF depth = 0 \/ IsGameOver(p) THEN 1 ELSE 1 + FullSum(p, depth, NMoves(p))
\* the nodes below p in its first k subtrees
FullSum(p, depth, k) ==
    IF k = 0 THEN 0 ELSE FullSum(p, depth, k - 1) + FullCount(Push(p, k), depth - 1)

\* a get_move call has come back, by return or by exception
Called == res.st # "none"
Searched(kind) == engine.kind = kind /\ res.st = "returned" /\ ~IsGameOver(res.root)

-----------------------------------------------------------------------------
(* Claims                                                                  *)

\* C1: for every position, depth and evaluator the pruned root search of
\* NegamaxEngine and of MinimaxEngine.minimax selects the move and the root
\* score of a full-width search of the same depth, ties going to the first
\* move in enumeration order.
C1_PrunedEqualsFullWidth ==
    /\ Searched("negamax") =>
         /\ res.move = FullBest(res.root, engine.depth, FALSE)
         /\ res.best = FullValue(res.root, engine.depth, FALSE)
    /\ Searched("minimax") =>
         /\ res.move = FullBest(res.root, engine.depth, TRUE)
         /\ res.score = Sign(res.root) * FullValue(res.root, engine.depth, TRUE)

\* a negamax search that pruned, on a root where two moves tie for the best
C1_Witness ==
    /\ Searched("negamax")
    /\ nodes < FullSum(res.root, engine.depth, NMoves(res.root))
    /\ \E i, j \in 1..NMoves(res.root) :
         /\ i < j
         /\ -FullValue(Push(res.root, i), engine.depth - 1, FALSE) = res.best
         /\ -FullValue(Push(res.root, j), engine.depth - 1, FALSE) = res.best

\* C2: every search routine leaves the board's move stack as it found it on
\* every exit, by return or by exception.
C2_PushPopBalanced == Called => res.bal

\* C3: when the time limit is found reached in the root loop of depth k >= 2
\* after some but not all root moves, get_move returns the best move of the
\* completed depth k-1, not one chosen at depth k.
C3_PartialDepthDiscarded ==
    (/\ engine.kind = "iterative" /\ res.st = "returned"
     /\ res.cutDepth >= 2
     /\ res.examined >= 1 /\ res.examined < NMoves(res.root))
    => res.move = FullBest(res.root, res.cutDepth - 1, FALSE)

\* C4: on a root without legal moves get_move returns (none, evaluate(root)).
C4_NoMoveReturnsEvaluation ==
    (Called /\ NMoves(res.root) = 0) =>
        /\ res.st = "returned"
        /\ res.move = NoMove
        /\ res.pair
        /\ res.score = IF engine.kind = "minimax" THEN MinimaxEvaluate(res.root)
                       ELSE Evaluate(res.root)

\* C5: on a position that is not over, get_move of MinimaxEngine, NegamaxEngine
\* and QuiescenceEngine returns, and returns a legal move of that position.
C5_ReturnsLegalMove ==
    (/\ Called /\ ~IsGameOver(res.root)
     /\ engine.kind \in {"minimax", "negamax", "quiescence"})
    => /\ res.st = "returned"
       /\ res.move.at = res.root
       /\ res.move.ix \in 1..NMoves(res.root)

\* a quiescence search deeper than one ply has returned the second move
C5_Witness ==
    /\ Searched("quiescence")
    /\ engine.depth > 1
    /\ res.move.ix = 2

\* C6: a failure of the oracle or the evaluator during a search reaches the
\* caller of get_move; no engine returns a move in its place.
C6_FailurePropagates == res.failed => res.st = "raised"

\* C7: NegamaxEngine counts no more nodes than a full-width search of the
\* same position and depth visits.
C7_NodesAtMostFullWidth ==
    Searched("negamax") => nodes <= FullSum(res.root, engine.depth, NMoves(res.root))

\* a negamax search that visited strictly fewer nodes
C7_Witness ==
    /\ Searched("negamax")
    /\ nodes > 0
    /\ nodes < FullSum(res.root, engine.depth, NMoves(res.root))

\* C8: _update_volatility comes to an end on every rating and rating period:
\* the bracket loop "while f(a - k * tau) < 0" and the loop
\* "while abs(B - A) > eps" both stop within the iterations followed, or the
\* call fails with an error.
C8_VolatilityTerminates ==
    /\ ~(gpc = "bracket" /\ vs.k >= MaxBracket)
    /\ ~(gpc = "illinois" /\ vs.iters >= MaxIllinois)

\* C9: update_rating with no results returns the rating and the volatility it
\* was given and leaves the object it was given as it was.
C9_EmptyUpdateKeepsRatingAndVol ==
    gpc = "returned" =>
        /\ gOut.rating = gArg.rating
        /\ gOut.vol = gArg.vol
        /\ gIn = gArg

\* an update with no results, made on a rating that an earlier update had
\* returned, has returned a rating whose rd differs from that of its argument
C9_Witness ==
    /\ gpc = "returned"
    /\ gOut.rd # gIn.rd
    /\ gIn.rd \notin {30, 300, 349, 350, 351, 400, 499, 500}

C11_FreshRatingIsDefault ==
    gpc = "created" => gIn = [rating |-> 1500, rd |-> 350, vol |-> 60]

\* C12: every update_rating call in which the player scores 1 against an
\* opponent rated at least 400 points lower comes back, with a rating above
\* and an rd not above the ones it was given.
C12_WinRaisesRating ==
    (gn >= 1 /\ gRes.score2 = 2 /\ gRes.opp_r + 400 <= gIn.rating) =>
        /\ ~(gpc = "bracket" /\ vs.k >= MaxBracket)
        /\ gpc # "error"
        /\ gpc = "rated" => gOut.rating > gArg.rating /\ gOut.rd <= gArg.rd

\* C13: the rd that update_rating returns, with or without results, is not
\* above the ceiling, and the ceiling is the same one in both branches and in
\* both rating modules.
C13_OneCeiling ==
    gpc \in {"returned", "rated"} =>
        \A m \in {"backend", "chess_bot"} :
            /\ gOut.rd <= RdCap(m)
            /\ gOut.rd <= RdCapResults(m)

\* C14: a move returned by MCTSEngine.get_move is the move of a root child
\* whose visit count no root child exceeds, and a legal move of the position
\* the call was given.
C14_ReturnsMostVisitedChild ==
    (mpc = "done" /\ mMove # NoMove) =>
        /\ mMove.at = mArg
        /\ mMove.ix \in 1..NMoves(mArg)
        /\ \E i \in 1..Len(tree[root].children) : tree[root].children[i] = mMove.ix
        /\ \A i \in 1..Len(tree[root].children) :
               tree[Push(root, tree[root].children[i])].visits
                   <= tree[Push(root, mMove.ix)].visits

\* a move has been returned while another root child had the better win rate
C14_Witness ==
    /\ mpc = "done"
    /\ mMove # NoMove
    /\ \E i \in 1..Len(tree[root].children) :
           tree[Push(root, tree[root].children[i])].wins
                   * tree[Push(root, mMove.ix)].visits
               > tree[Push(root, mMove.ix)].wins
                   * tree[Push(root, tree[root].children[i])].visits

\* C15: get_move on a board that is already terminal returns None and leaves
\* self.root, the tree under it and its counters as they were: no node is
\* built and no iteration of the loop runs.
C15_TerminalCallLeavesTree ==
    [][(mpc \in {"idle", "done"} /\ IsGameOver(mArg')) =>
           /\ mMove' = NoMove
           /\ mpc' = "done"
           /\ root' = root
           /\ tree' = tree
           /\ sims' = sims
           /\ last' = last]_vars

\* get_move has returned on a terminal board while the engine held the tree
\* of an earlier call
C15_Witness ==
    /\ mpc = "done"
    /\ IsGameOver(mArg)
    /\ root # NoPos
    /\ root # mArg
    /\ tree[root].visits > 0

\* C16: one backpropagation from node n with rollout value r adds 1 to the
\* visits of n and of every ancestor of n up to the root and to no other
\* node, and adds sigmoid((-1)^k * r / 100) to the wins of the node k steps
\* above n and nothing to the wins of any other node.
C16_BackpropagationCredits ==
    [][sims' = sims + 1 =>
           \A p \in DOMAIN tree' :
               LET before == IF p \in DOMAIN tree THEN tree[p] ELSE MCTSNode(<<>>)
                   n == last'.node
                   k == Len(n) - Len(p)
               IN IF k >= 0 /\ SubSeq(n, 1, Len(p)) = p
                  THEN /\ tree'[p].visits = before.visits + 1
                       /\ tree'[p].wins = before.wins
                            + Sigmoid(IF k % 2 = 0 THEN last'.result ELSE -last'.result)
                  ELSE /\ tree'[p].visits = before.visits
                       /\ tree'[p].wins = before.wins]_vars

\* a rollout value that is not 0 has been backpropagated from a node two
\* steps below the root, next to a node that is not on the way up
C16_Witness ==
    /\ mpc = "loop"
    /\ last.node # NoPos
    /\ Len(last.node) >= Len(root) + 2
    /\ last.result # 0
    /\ Len(tree[root].children) = 2

\* C17: the random choices being the same, the move selected after more
\* iterations of the loop has no fewer visits than the move selected after
\* fewer iterations.
C17_LargerBudgetKeepsVisits ==
    [][(mpc = "loop" /\ mpc' = "loop" /\ tree[root].children # <<>>) =>
           SelectedVisits' >= SelectedVisits]_vars

\* after more than two iterations the selected root child has been visited
\* more than once and no longer is the only child
C17_Witness ==
    /\ mpc = "loop"
    /\ sims > 2
    /\ Len(tree[root].children) = 2
    /\ SelectedVisits >= 2

\* C18: the list _order_moves hands back has every promotion before every
\* other capture, every capture before every check that captures nothing and
\* every check before every quiet move, whatever pieces take and are taken.
\* It is read off the list that _alphabeta orders at the position after the
\* first root move of a finished get_move.
C18_OrderByKind ==
    (/\ engine.kind = "quiescence"
     /\ res.root # NoPos
     /\ res.move # NoMove
     /\ engine.depth >= 2
     /\ ~IsGameOver(Push(res.root, 1))) =>
        LET p == Push(res.root, 1)
            ms == OrderMoves(p, LegalMoves(p))
            Kind(i) == IF MoveAttr(p, i).promotion THEN 3
                       ELSE IF MoveAttr(p, i).capture THEN 2
                       ELSE IF MoveAttr(p, i).check THEN 1
                       ELSE 0
        IN \A i, j \in 1..Len(ms) : i < j => Kind(ms[i]) >= Kind(ms[j])

\* C19: a _quiescence call whose static evaluation, seen from the side to
\* move, is at least beta hands back beta after counting its own node only,
\* whatever depth it has left, and no _quiescence call hands back more than
\* its beta.  It is read off the call that a depth-1 get_move makes for its
\* second root move, whose beta is minus the value of the first root move.
C19_StandPatReturnsBeta ==
    (/\ engine.kind = "quiescence"
     /\ engine.depth = 1
     /\ res.move # NoMove
     /\ NMoves(res.root) >= 2
     /\ ~IsGameOver(Push(res.root, 2))) =>
        LET beta == QAlphabeta(Push(res.root, 1), 0, -Inf, Inf, engine.q_depth).v
            q == Quiescence(Push(res.root, 2), -Inf, beta, engine.q_depth)
        IN /\ q.v <= beta
           /\ Evaluate(Push(res.root, 2)) * Sign(Push(res.root, 2)) >= beta
                  => q.v = beta /\ q.n = 1

\* C20: evaluate_position of a position whose side to move is checkmated is
\* negative when White is mated and positive when Black is mated, in
\* heuristics and in MinimaxEngine alike, and evaluate_position of a
\* stalemate or of a position with insufficient material is exactly 0.  It
\* is read off the position on which the latest rollout ended.
C20_TerminalEvaluation ==
    last.end # NoPos =>
        /\ (TermKind(last.end) = "checkmate" /\ Turn(last.end)) =>
               last.result < 0 /\ MinimaxEvaluate(last.end) < 0
        /\ (TermKind(last.end) = "checkmate" /\ ~Turn(last.end)) =>
               last.result > 0 /\ MinimaxEvaluate(last.end) > 0
        /\ TermKind(last.end) \in {"stalemate", "insufficient"} =>
               last.result = 0 /\ MinimaxEvaluate(last.end) = 0

\* a rollout has ended on a dead position whose pieces and squares would
\* not score 0
C20_Witness ==
    /\ last.end # NoPos
    /\ TermKind(last.end) = "insufficient"
    /\ StaticScore(last.end) # 0

\* C21: a newly constructed MinimaxEngine reports nodes_searched = 0,
\* depth_reached = 0 and time_taken = 0; after a get_move that returned on a
\* position that is not over, nodes_searched > 0 and 0 < depth_reached <=
\* level, both being what the latest call alone counted, while time_taken
\* never goes down from one call to the next.
C21_MinimaxMetrics ==
    /\ [](engine.kind = "minimax" =>
            /\ res = NoRes => nodes = 0 /\ curDepth = 0 /\ totalTime = 0
            /\ (res.st = "returned" /\ ~IsGameOver(res.root)) =>
                  /\ nodes > 0
                  /\ 0 < curDepth /\ curDepth <= engine.depth
                  /\ nodes = MinimaxTry(res.root, engine.depth).n
                  /\ curDepth = MinimaxTry(res.root, engine.depth).current_depth)
    /\ [][engine.kind = "minimax" => totalTime' >= totalTime]_vars

\* a second get_move of a MinimaxEngine of level 2 or more has returned on a
\* position that is not over
C21_Witness ==
    /\ engine.kind = "minimax"
    /\ engine.depth >= 2
    /\ moveCount = 2
    /\ res.st = "returned"
    /\ ~IsGameOver(res.root)
    /\ totalTime > MaxElapsed

\* C22: one call of BaseChessEngine.get_move runs _get_move_impl at most 3
\* times; an attempt after the first is made only when the attempt before it
\* raised EngineError, TimeoutError or ConnectionError; any other exception,
\* and the third such failure in a row, is re-raised to the caller; and
\* move_count goes up by one exactly when an attempt returns.
C22_RetryAtMostThrice ==
    /\ [](engine.kind = "base" =>
            /\ res.attempts <= 3
            /\ res.st = "retrying" =>
                  res.exc \in {"EngineError", "TimeoutError", "ConnectionError"}
            /\ res.exc \in {"RuntimeError", "ValueError"} => res.st = "raised"
            /\ (res.attempts = 3 /\ res.exc # "ok") => res.st = "raised"
            /\ res.exc = "ok" <=> res.st = "returned")
    /\ [][engine.kind = "base" =>
            /\ res'.attempts > 1 =>
                  /\ res'.attempts = res.attempts + 1
                  /\ res.exc \in {"EngineError", "TimeoutError", "ConnectionError"}
            /\ moveCount' = IF res'.exc = "ok" THEN moveCount + 1 ELSE moveCount]_vars

\* the third attempt of a call has failed with a retryable exception, after
\* an earlier call of the same engine returned a move
C22_Witness ==
    /\ engine.kind = "base"
    /\ res.attempts = 3
    /\ res.exc = "TimeoutError"
    /\ res.st = "raised"
    /\ moveCount = 1

\* C23: a make_move request with a well-formed move that is not a legal
\* move of the game's position is answered with status 400 and a detail
\* containing 'Illegal move', and leaves the game's board, its move_times and
\* the boards of both engines as they were.
C23_IllegalMoveRejected ==
    [][(resp.st # "awaiting" /\ resp'.st = "done" /\ resp'.move > NMoves(board)) =>
          /\ resp'.status = 400
          /\ resp'.detail \in {"Illegal move", "400: Illegal move"}
          /\ UNCHANGED <<board, game, selfBoard>>]_vars

\* C24: evaluate_position charges each side 30 for each of its isolated
\* pawns, a pawn being isolated when no pawn of its colour stands on an
\* adjacent file; this counts every pawn on such a file, on the files a and h
\* as on the others.
C24_IsolatedPawnsCharged ==
    charged.done =>
        LET Lone(ps, file) == /\ file = 0 \/ ps[file - 1] = 0
                              /\ file = 7 \/ ps[file + 1] = 0
            Isolated(ps) == {pn \in (0..7) \X (1..MaxFilePawns) :
                                pn[2] <= ps[pn[1]] /\ Lone(ps, pn[1])}
        IN /\ charged.white = 30 * Cardinality(Isolated(pawns.white))
           /\ charged.black = 30 * Cardinality(Isolated(pawns.black))

\* C25: every QuiescenceEngine.get_move call comes to an end, and no position
\* it visits lies more than depth + q_depth plies below the root.
C25_QuiescenceDepthBounded ==
    (engine.kind = "quiescence" /\ res.st # "none") =>
        /\ res.st \in {"returned", "raised"}
        /\ res.plies <= engine.depth + engine.q_depth

\* a search has gone as deep as depth + q_depth with q_depth > 0, in a game
\* that goes on below that
C25_Witness ==
    /\ engine.kind = "quiescence"
    /\ engine.q_depth > 0
    /\ res.st = "returned"
    /\ res.plies = engine.depth + engine.q_depth
    /\ res.plies < MaxPly

\* C26: for every position p, depth d >= 0 and window alpha < beta the value v
\* of _negamax(d, alpha, beta) on p bounds the full-width negamax value N of
\* p at depth d: v = N when alpha < v < beta, N <= v when v <= alpha and
\* N >= v when v >= beta; at depth 0 v is the evaluator's score seen from the
\* side to move.  It is read off the game tree of a NegamaxEngine that has
\* searched from the start of the game.
C26_FailSoftBound ==
    (Searched("negamax") /\ res.root = <<>> /\ engine.depth = MaxDepth) =>
        \A p \in Positions, d \in 0..MaxDepth :
            /\ Negamax(p, 0, -Inf, Inf).v = Evaluate(p) * Sign(p)
            /\ \A alpha, beta \in {-Inf, -MateScore, -1000, -100, -50, 0,
                                   50, 100, 1000, MateScore, Inf} :
                  alpha < beta =>
                      LET v == Negamax(p, d, alpha, beta).v
                          N == FullValue(p, d, FALSE)
                      IN /\ (alpha < v /\ v < beta) => v = N
                         /\ v <= alpha => N <= v
                         /\ v >= beta => N >= v

\* in the game tree searched, some _negamax call with a finite window cuts
\* off and hands back a value strictly below the full-width value
C26_Witness ==
    /\ Searched("negamax") /\ res.root = <<>> /\ engine.depth = MaxDepth
    /\ \E p \in Positions, d \in 1..MaxDepth, alpha, beta \in {-1000, -100, 0, 100} :
          /\ alpha < beta
          /\ Negamax(p, d, alpha, beta).v >= beta
          /\ FullValue(p, d, FALSE) > Negamax(p, d, alpha, beta).v

\* C27: between the iterations of the MCTS loop every node that has a parent
\* has visits >= 1 and so has its parent, so that the selection step, which
\* takes ucb1 of the children of nodes with no untried move, never divides by
\* zero nor takes the logarithm of zero, and no child of a fully expanded
\* node is unvisited.
C27_SelectedChildrenVisited ==
    mpc = "loop" =>
        \A n \in DOMAIN tree :
            \A i \in 1..Len(tree[n].children) :
                /\ Push(n, tree[n].children[i]) \in DOMAIN tree
                /\ tree[Push(n, tree[n].children[i])].visits >= 1
                /\ tree[n].visits >= 1

\* the loop stands before an iteration whose selection step takes ucb1 of two
\* children of the root, one of which has children of its own
C27_Witness ==
    /\ mpc = "loop"
    /\ sims < MaxSims
    /\ tree[root].untried_moves = <<>>
    /\ Len(tree[root].children) >= 2
    /\ \E i \in 1..Len(tree[root].children) :
          tree[Push(root, tree[root].children[i])].children # <<>>

\* C28: between the iterations of the MCTS loop, at every node the moves of
\* the children and the untried moves are disjoint and without duplicate and
\* together are the legal moves of the node's position; from one iteration to
\* the next untried_moves only loses moves and children only gains them.
C28_MovesPartitioned ==
    /\ [](mpc = "loop" =>
            \A n \in DOMAIN tree :
                LET all == tree[n].children \o tree[n].untried_moves
                IN /\ Len(all) = NMoves(n)
                   /\ {all[i] : i \in 1..Len(all)} = 1..NMoves(n))
    /\ [][(mpc = "loop" /\ mpc' = "loop") =>
            \A n \in DOMAIN tree :
                /\ n \in DOMAIN tree'
                /\ Len(tree'[n].untried_moves) <= Len(tree[n].untried_moves)
                /\ tree'[n].untried_moves
                     = SubSeq(tree[n].untried_moves, 1, Len(tree'[n].untried_moves))
                /\ Len(tree'[n].children) >= Len(tree[n].children)
                /\ tree[n].children
                     = SubSeq(tree'[n].children, 1, Len(tree[n].children))]_vars

\* a node below the root has a child and an untried move, the root none left
C28_Witness ==
    /\ mpc = "loop"
    /\ tree[root].untried_moves = <<>>
    /\ \E n \in DOMAIN tree :
          /\ n # root
          /\ tree[n].children # <<>>
          /\ tree[n].untried_moves # <<>>

\* C29: after every iteration of the MCTS loop the root's visits are the
\* iterations completed in this get_move call, and every node's visits are
\* the playouts started at it plus the visits of its children: an iteration
\* adds one to the excess of a node's visits over its children's at the node
\* its playout started at and leaves the excess as it was at every other
\* node; a child's visits never exceed its parent's.
C29_VisitsAddUp ==
    /\ [](mpc = "loop" =>
            /\ tree[root].visits = sims
            /\ \A n \in DOMAIN tree : n # root => tree[n].visits <= tree[Pop(n)].visits)
    /\ [][(mpc = "loop" /\ sims' = sims + 1) =>
            LET RECURSIVE Sum(_, _, _)
                Sum(t, n, k) ==
                    IF k = 0 THEN 0
                    ELSE Sum(t, n, k - 1) + t[Push(n, t[n].children[k])].visits
                Own(t, n) ==
                    IF n \in DOMAIN t THEN t[n].visits - Sum(t, n, Len(t[n].children))
                    ELSE 0
            IN \A n \in DOMAIN tree' :
                   Own(tree', n) = Own(tree, n) + (IF n = last'.node THEN 1 ELSE 0)]_vars

\* an iteration has played out from a node that was expanded earlier and has
\* no move to expand: its visits exceed those of its children by two or more
C29_Witness ==
    /\ mpc = "loop"
    /\ last.node # NoPos
    /\ last.node # root
    /\ tree[last.node].children = <<>>
    /\ tree[last.node].visits >= 2

\* C30: every record_match_result(a, b, s) call comes to its end; the update
\* of b is computed from the rating and rd a had before the call; a step
\* changes no entry of the leaderboard but those of a and b, and no name
\* leaves the leaderboard.
C30_MatchReplacesBoth ==
    /\ [](match.pc # "idle" =>
            /\ ~(gpc = "bracket" /\ vs.k >= MaxBracket)
            /\ ~(gpc = "illinois" /\ vs.iters >= MaxIllinois)
            /\ gpc # "error"
            /\ match.pc = "b" =>
                  /\ gIn = match.rating_b
                  /\ gRes = [opp_r |-> match.rating_a.rating,
                             opp_rd |-> match.rating_a.rd,
                             score2 |-> 2 - match.score2])
    /\ [][/\ DOMAIN leaderboard \subseteq DOMAIN leaderboard'
          /\ \A n \in DOMAIN leaderboard :
                n \notin {match.a, match.b, match'.a, match'.b} =>
                    leaderboard'[n] = leaderboard[n]]_vars

====
